---- MODULE Spec2Model ----
(***************************************************************************)
(* pyvospace: the node persistence layer (server/database.py) with the     *)
(* POSIX authorization policy (server/spaces/posix/auth.py) as its         *)
(* permission hook, and the UWS job executor (server/uws.py).              *)
(*                                                                         *)
(* Strings the code takes apart (paths, ltree labels) are sequences of     *)
(* one-character strings, so that splitting, joining and prefix tests are  *)
(* computed and not assumed.                                               *)
(***************************************************************************)
EXTENDS Integers, Sequences, FiniteSets, TLC

VARIABLES
    nodes,      \* table nodes: set of rows, unique on (path, space_id)
    props,      \* table properties: set of rows, unique on (uri, node_path, space_id)
    pc,         \* per request: "idle", "lock" (inside the FOR UPDATE query), "write"
    req,        \* per request: the operation in flight and its arguments
    qrows,      \* per request: rows the FOR UPDATE query still has to lock, in order
    got,        \* per request: rows the query has locked so far, in order
    last,       \* the operation that finished last: who, what, outcome
    nops,       \* operations started so far
    uws_jobs,   \* table uws_jobs: the rows in order of their ids 1, 2, ...
    job_tasks,  \* UWSJobExecutor.job_tasks: the entries task -> job
    tasks,      \* per task of the event loop: where it is and what its body did
    key_error,  \* a completion callback found its task missing from job_tasks
    closing,    \* UWSJobExecutor.close: where the call is, and whether it has slept
    phase_calls, \* per job id, <<phase>> of the last set_uws_phase or
                \* set_uws_extras_and_phase call made since the job was
                \* created, <<>> without one
    fetched,    \* the job id and the outcome of the last get_uws_job call
    job_call,   \* the last set_uws_phase or set_uws_extras_and_phase call a
                \* client of the job table made, with its arguments
    permits_call,   \* the arguments of a call of permits and the users row found
    permits_result, \* what the call returned or raised, "none" before it
    remembered,     \* per space, the identity the client's session holds, "" for none
    auth_response,  \* the last login or logout request and its response
    session_change, \* per space, the last request that was a logout or a
                    \* login answered with 200
    reader,         \* a ControlledReader, its source and the chunks it has yielded
    tree,           \* the root ContainerNode: its path and the children it stores,
                    \* each a node with the children it stores
    tree_call,      \* the last call on a container of the tree and what it raised
    props_node,     \* a Node: its property list and the last call that set it
    transfer,       \* the arguments of a create_transfer call and its outcome
    xml,            \* a node, its serialized form and the node parsed from it
    label           \* a path, its ltree label and the path read back from it

dbvars == <<nodes, props, pc, req, qrows, got, last, nops>>

jobvars == <<phase_calls, fetched, job_call>>
uwsvars == <<uws_jobs, job_tasks, tasks, key_error, closing, phase_calls, fetched,
            job_call>>

authvars == <<permits_call, permits_result>>

\* the state of the components that are called as libraries
sessionvars == <<remembered, auth_response, session_change>>
readervars == <<reader>>
treevars == <<tree, tree_call>>
modelvars == <<props_node, transfer, xml, label>>
libvars == <<authvars, sessionvars, readervars, treevars, modelvars>>

vars == <<nodes, props, pc, req, qrows, got, last, nops,
          uws_jobs, job_tasks, tasks, key_error, closing, phase_calls, fetched,
          job_call,
          permits_call, permits_result,
          remembered, auth_response, session_change,
          reader, tree, tree_call, props_node, transfer, xml, label>>

----------------------------------------------------------------------------
(* Bounds of the model *)

MaxOps == 2
MaxProps == 2
MaxJobs == 2
MaxTasks == 2

Procs == {1, 2}
Spaces == {1, 2}

----------------------------------------------------------------------------
(* core/model.py: NodeType *)

NodeType_Node == 0
NodeType_DataNode == 1
NodeType_ContainerNode == 4
NodeType_LinkNode == 5

\* uws.py: UWSPhase
UWSPhase_Pending == 0
UWSPhase_Executing == 2
UWSPhase_Completed == 3
UWSPhase_Error == 4

NULL == "NULL"

PROTECTED_URI ==
    { "ivo://ivoa.net/vospace/core#creator",
      "ivo://ivoa.net/vospace/core#type",
      "ivo://ivoa.net/vospace/core#format",
      "ivo://ivoa.net/vospace/core#identifier",
      "ivo://ivoa.net/vospace/core#source",
      "ivo://ivoa.net/vospace/core#language",
      "ivo://ivoa.net/vospace/core#relation",
      "ivo://ivoa.net/vospace/core#coverage",
      "ivo://ivoa.net/vospace/core#rights",
      "ivo://ivoa.net/vospace/core#availableSpace",
      "ivo://ivoa.net/vospace/core#groupread",
      "ivo://ivoa.net/vospace/core#groupwrite",
      "ivo://ivoa.net/vospace/core#publicread",
      "ivo://ivoa.net/vospace/core#quota",
      "ivo://ivoa.net/vospace/core#length",
      "ivo://ivoa.net/vospace/core#mtime",
      "ivo://ivoa.net/vospace/core#ctime",
      "ivo://ivoa.net/vospace/core#btime" }

TitleURI == "ivo://ivoa.net/vospace/core#title"
CreatorURI == "ivo://ivoa.net/vospace/core#creator"

----------------------------------------------------------------------------
(* String helpers: str.split, filter(None, ...), str.join, str.replace *)

Range(s) == { s[i] : i \in 1..Len(s) }

RECURSIVE SplitFrom(_, _, _)
SplitFrom(s, sep, cur) ==
    IF s = <<>> THEN <<cur>>
    ELSE IF Head(s) = sep THEN <<cur>> \o SplitFrom(Tail(s), sep, <<>>)
    ELSE SplitFrom(Tail(s), sep, Append(cur, Head(s)))

split(s, sep) == SplitFrom(s, sep, <<>>)

filter_none(segs) == SelectSeq(segs, LAMBDA x : x # <<>>)

RECURSIVE join(_, _)
join(segs, sep) ==
    IF segs = <<>> THEN <<>>
    ELSE IF Len(segs) = 1 THEN segs[1]
    ELSE segs[1] \o <<sep>> \o join(Tail(segs), sep)

replace(s, old, new) == [i \in 1..Len(s) |-> IF s[i] = old THEN new ELSE s[i]]

\* path[:-1]
but_last(segs) == SubSeq(segs, 1, Len(segs) - 1)

----------------------------------------------------------------------------
(* database.py: path_to_ltree, and the ltree operators the queries use *)

path_to_ltree(path) ==
    LET path_array == filter_none(split(path, "/"))
    IN  IF Len(path_array) = 0
        THEN [ok |-> FALSE, tree |-> <<>>]
        ELSE [ok |-> TRUE, tree |-> join(path_array, ".")]

\* x <@ y: x is y or a descendant of y, label by label
ltree_is_prefix(x, y) == Len(x) >= Len(y) /\ SubSeq(x, 1, Len(y)) = y

ltree_is_descendant(x, y) ==
    \/ x = y
    \/ /\ Len(x) > Len(y)
       /\ SubSeq(x, 1, Len(y)) = y
       /\ x[Len(y) + 1] = "."

nlevel(x) == Cardinality({ i \in 1..Len(x) : x[i] = "." }) + 1

CharRank(c) ==
    CASE c = "." -> 0 [] c = "/" -> 1 [] c = "a" -> 2 [] c = "b" -> 3 [] OTHER -> 4

\* the ordering of ORDER BY path ASC
RECURSIVE ltree_less(_, _)
ltree_less(x, y) ==
    IF y = <<>> THEN FALSE
    ELSE IF x = <<>> THEN TRUE
    ELSE IF Head(x) = Head(y) THEN ltree_less(Tail(x), Tail(y))
    ELSE CharRank(Head(x)) < CharRank(Head(y))

\* every order ORDER BY path ASC may return the rows of S in: rows of equal
\* path (rows of different spaces) come in an order SQL leaves open
order_by_path_asc(S) ==
    { q \in [1..Cardinality(S) -> S] :
        \A i, j \in 1..Cardinality(S) :
            i < j => /\ q[i] # q[j]
                     /\ ~ ltree_less(q[j].path, q[i].path) }

----------------------------------------------------------------------------
(* Rows *)

NodeRow(type, path_tree, owner, space_id, link, groupwrite) ==
    [ type |-> type,
      name |-> LET labels == split(path_tree, ".") IN labels[Len(labels)],
      path |-> path_tree,
      owner |-> owner,
      space_id |-> space_id,
      link |-> link,
      groupwrite |-> groupwrite ]

PropertyRow(uri, value, read_only, node_path, space_id) ==
    [ uri |-> uri, value |-> value, read_only |-> read_only,
      node_path |-> node_path, space_id |-> space_id ]

\* a property of a request: Property(uri, value, read_only) or DeleteProperty(uri)
Property(uri, value, read_only) ==
    [ uri |-> uri, value |-> value, read_only |-> read_only, delete |-> FALSE ]

DeleteProperty(uri) ==
    [ uri |-> uri, value |-> NULL, read_only |-> FALSE, delete |-> TRUE ]

\* passlib's pbkdf2_sha256: the stored hash holds the salt and a checksum
\* that is a function of salt and secret; verify derives the checksum again
pbkdf2_sha256_hash(secret, salt) ==
    [salt |-> salt, checksum |-> <<"pbkdf2-sha256", salt, secret>>]

pbkdf2_sha256_verify(secret, hash) ==
    pbkdf2_sha256_hash(secret, hash.salt) = hash

\* table users (username, space_name, admin, groupwrite, password); a
\* password is a sequence of symbols, as the Authorization header carries it
users ==
    { [username |-> "u1", space_name |-> 1, admin |-> TRUE,  groupwrite |-> {},
       password |-> pbkdf2_sha256_hash(<<"p">>, "s1")],
      [username |-> "u1", space_name |-> 2, admin |-> FALSE, groupwrite |-> {"g1"},
       password |-> pbkdf2_sha256_hash(<<"q">>, "s2")],
      [username |-> "u2", space_name |-> 2, admin |-> FALSE, groupwrite |-> {},
       password |-> pbkdf2_sha256_hash(<<"p", ":", "q">>, "s3")] }

Identities == {"u1", "u2"}

----------------------------------------------------------------------------
(* auth.py: DBUserNodeAuthorizationPolicy *)

any_value_in_lists(a, b) == \E i \in b : i \in a

\* faulty variant: only the first property is looked at
any_property_in_protected_first(a) == Len(a) > 0 /\ a[1].uri \in PROTECTED_URI

any_property_in_protected(a) == \E i \in 1..Len(a) : a[i].uri \in PROTECTED_URI

\* a Node built from a row: _create_node and the owner/group fields
\* _resultset_to_node copies; the path has '.' replaced by '/'
NodeOfRow(row) ==
    [ path |-> replace(row.path, ".", "/"),
      owner |-> row.owner,
      group_write |-> row.groupwrite,
      node_type |-> row.type ]

\* _resultset_to_node([row], []): None for a None row
resultset_to_node(row_opt) ==
    IF row_opt = <<>> THEN <<>> ELSE <<NodeOfRow(row_opt[1])>>

\* Node.uri_to_path, model.py lines 504-509, of a URI that is a path:
\* os.path.normpath(path).lstrip('/').rstrip('/')
uri_to_path(uri) == join(filter_none(split(uri, "/")), "/")

\* Node(path, owner=, group_read=, group_write=), model.py lines 411-425
Node(path, owner, group_read, group_write) ==
    [ path |-> uri_to_path(path),
      owner |-> owner,
      group_read |-> group_read,
      group_write |-> group_write ]

Bool(b) == IF b THEN "True" ELSE "False"

\* permits, lines 91-105; parent is <<>> for None
permits_createNode(user, identity, parent, properties) ==
    IF any_property_in_protected(properties) THEN "False"
    ELSE IF parent = <<>> THEN "AttributeError"
    ELSE IF parent[1].path = <<"/">> /\ user.admin THEN "True"
    ELSE IF parent[1].owner = identity THEN "True"
    ELSE Bool(any_value_in_lists(parent[1].group_write, user.groupwrite))

\* permits, lines 107-115
permits_setNode(user, identity, node, properties) ==
    IF any_property_in_protected(properties) THEN "False"
    ELSE IF node.owner = identity THEN "True"
    ELSE Bool(any_value_in_lists(node.group_write, user.groupwrite))

\* permits, lines 141-151
permits_moveNode(user, identity, src, dest) ==
    IF dest.path = <<"/">> /\ user.admin THEN "True"
    ELSE IF src.owner = identity /\ dest.owner = identity THEN "True"
    ELSE IF /\ any_value_in_lists(src.group_write, user.groupwrite)
            /\ any_value_in_lists(dest.group_write, user.groupwrite) THEN "True"
    ELSE "False"

\* faulty variant: deleteNode that lets an admin through
permits_deleteNode_admin(user, identity, node) ==
    IF node.owner = identity \/ user.admin THEN "True"
    ELSE Bool(any_value_in_lists(node.group_write, user.groupwrite))

\* permits, lines 156-160
permits_deleteNode(user, identity, node) ==
    IF node.owner = identity THEN "True"
    ELSE Bool(any_value_in_lists(node.group_write, user.groupwrite))

\* permits, lines 162-170
permits_dataTransfer(user, identity, job) ==
    IF job.transfer.target.owner = identity THEN "True"
    ELSE IF job.transfer.class = "PushToSpace"
    THEN Bool(any_value_in_lists(job.transfer.target.group_write, user.groupwrite))
    ELSE Bool(\/ any_value_in_lists(job.transfer.target.group_read, user.groupread)
              \/ any_value_in_lists(job.transfer.target.group_write, user.groupwrite))

\* faulty variant: a job rule that does not look at the owner
permits_runJob_any(identity, job) == "True"

\* permits, lines 172-177: falls to the final return False
permits_runJob(identity, job) ==
    IF job.owner = identity THEN "True" ELSE "False"

\* permits, lines 83-177, after the users row has been fetched: found is the
\* result of the select, context a record of the parts of the context
\* argument.  The result is "True", "False", or the exception raised.
permits_user(found, identity, permission, context) ==
    IF found = {} THEN "HTTPForbidden"
    ELSE LET user == CHOOSE u \in found : TRUE
         IN  IF permission = "createNode"
                THEN permits_createNode(user, identity, context.parent, context.properties)
             ELSE IF permission = "setNode"
                THEN permits_setNode(user, identity, context.node, context.properties)
             ELSE IF permission = "getNode" THEN "True"
             ELSE IF permission \in {"moveNode", "copyNode"}
                THEN permits_moveNode(user, identity, context.src, context.dest)
             ELSE IF permission = "createTransfer" THEN "True"
             ELSE IF permission = "deleteNode"
                THEN permits_deleteNode(user, identity, context.node)
             ELSE IF permission = "dataTransfer"
                THEN permits_dataTransfer(user, identity, context.job)
             ELSE IF permission \in {"runJob", "abortJob"}
                THEN permits_runJob(identity, context.job)
             ELSE "False"

\* permits(identity, permission, context) of the policy of space_name, with
\* the select on users of lines 84-89.  parent is <<>> for None, properties
\* the node's property list.
permits(space_name, identity, permission, parent, node, properties) ==
    permits_user({ u \in users : u.username = identity /\ u.space_name = space_name },
                 identity, permission,
                 [parent |-> parent, node |-> node, properties |-> properties])

----------------------------------------------------------------------------
(* database.py: the queries *)

\* _get_node_and_parent, lines 75-77:
\*   select * from nodes where path=$1 or path=$2 and space_id=$3
\* AND binds tighter than OR: path=$1 or (path=$2 and space_id=$3)
node_and_parent_rows(path_tree, path_parent_tree, space_id) ==
    { r \in nodes : \/ r.path = path_tree
                    \/ (r.path = path_parent_tree /\ r.space_id = space_id) }

\* _get_node_and_parent, lines 78-92: what the result list is taken to be
get_node_and_parent(result, path_parent_tree) ==
    IF Len(result) = 1 THEN
        IF path_parent_tree # <<>> THEN
            IF result[1].path = path_parent_tree
            THEN [error |-> "", parent |-> <<result[1]>>, child |-> <<>>]
            ELSE [error |-> "AssertionError", parent |-> <<>>, child |-> <<>>]
        ELSE [error |-> "", parent |-> <<>>, child |-> <<result[1]>>]
    ELSE IF Len(result) = 2 THEN
        [error |-> "", parent |-> <<result[1]>>, child |-> <<result[2]>>]
    ELSE [error |-> "", parent |-> <<>>, child |-> <<>>]

\* update_properties, lines 169-171
update_rows(node_path_tree, node_type, space_id) ==
    { r \in nodes : r.path = node_path_tree /\ r.type = node_type
                    /\ r.space_id = space_id }

\* directory, lines 97-100
directory_rows(path_tree, space_id) ==
    { r \in nodes : /\ ltree_is_descendant(r.path, path_tree)
                    /\ nlevel(r.path) - nlevel(path_tree) <= 1
                    /\ r.space_id = space_id }

\* delete, line 203
delete_rows(path_tree, space_id) ==
    { r \in nodes : ltree_is_descendant(r.path, path_tree) /\ r.space_id = space_id }

\* delete_properties, lines 217-218
delete_properties_rows(path_tree, space_id) ==
    { r \in props : r.node_path = path_tree /\ r.space_id = space_id }

----------------------------------------------------------------------------
(* database.py: the writes *)

\* faulty variant: a uniqueness constraint that never fires
node_unique_violation_never(ns, row) == FALSE

\* the uniqueness constraint of nodes on (path, space_id)
node_unique_violation(ns, row) ==
    \E r \in ns : r.path = row.path /\ r.space_id = row.space_id

\* the uniqueness constraint of properties on (uri, node_path, space_id)
property_conflict(ps, row) ==
    { r \in ps : r.uri = row.uri /\ r.node_path = row.node_path
                 /\ r.space_id = row.space_id }

\* properties_tolist with path_tree and space_id appended, lines 153-157
property_rows(properties, path_tree, space_id) ==
    [ i \in 1..Len(properties) |->
        PropertyRow(properties[i].uri, properties[i].value,
                    properties[i].read_only, path_tree, space_id) ]

\* insert, lines 159-161: executemany of plain INSERTs
RECURSIVE insert_properties(_, _)
insert_properties(ps, rows) ==
    IF rows = <<>> THEN [ok |-> TRUE, props |-> ps]
    ELSE IF property_conflict(ps, Head(rows)) # {} THEN [ok |-> FALSE, props |-> ps]
    ELSE insert_properties(ps \cup {Head(rows)}, Tail(rows))

\* faulty variant: an upsert whose DO UPDATE does not test read_only
upsert_property_any(ps, row) ==
    LET hit == property_conflict(ps, row)
        old == CHOOSE r \in hit : TRUE
    IN  IF hit = {} THEN ps \cup {row}
        ELSE IF old.value # row.value
             THEN (ps \ {old}) \cup {[old EXCEPT !.value = row.value]}
             ELSE ps

\* update_properties, lines 190-194: one INSERT ... ON CONFLICT DO UPDATE
upsert_property(ps, row) ==
    LET hit == property_conflict(ps, row)
        old == CHOOSE r \in hit : TRUE
    IN  IF hit = {} THEN ps \cup {row}
        ELSE IF old.read_only = FALSE /\ old.value # row.value
             THEN (ps \ {old}) \cup {[old EXCEPT !.value = row.value]}
             ELSE ps

RECURSIVE upsert_properties(_, _)
upsert_properties(ps, rows) ==
    IF rows = <<>> THEN ps
    ELSE upsert_properties(upsert_property(ps, Head(rows)), Tail(rows))

\* update_properties, lines 197-199
delete_marked_properties(ps, uris, node_path_tree, space_id) ==
    { r \in ps : ~ ( /\ r.uri \in uris
                     /\ r.node_path = node_path_tree
                     /\ r.space_id = space_id
                     /\ r.read_only = FALSE ) }

\* update_properties, lines 181-199: the two statements on the request's list
update_properties_result(ps, properties, node_path_tree, space_id) ==
    LET node_props_delete ==
            { properties[i].uri : i \in { k \in 1..Len(properties) : properties[k].delete } }
        node_props_insert ==
            property_rows(SelectSeq(properties, LAMBDA x : ~ x.delete),
                          node_path_tree, space_id)
    IN  delete_marked_properties(upsert_properties(ps, node_props_insert),
                                 node_props_delete, node_path_tree, space_id)

----------------------------------------------------------------------------
(* Inputs *)

S_a == <<"a">>
S_ab == <<"a", "b">>
S_a_b == <<"a", "/", "b">>
S_ab_a == <<"a", "b", "/", "a">>

\* node.path of the Node handed to insert and update_properties
NodePaths == { <<>>, S_a, S_ab, S_a_b, S_ab_a }

\* the path argument of directory, delete and delete_properties
RawPaths == NodePaths \cup { <<"/", "a", "/">> }

\* (node_type, target) of the Node handed to insert
InsertKinds ==
    { <<NodeType_ContainerNode, NULL>>,
      <<NodeType_LinkNode, "t">>, <<NodeType_LinkNode, NULL>> }

UpdateTypes == { NodeType_ContainerNode, NodeType_DataNode }

InsertProperties ==
    { <<>>,
      <<Property(TitleURI, "v1", TRUE)>>,
      <<Property(TitleURI, "v1", FALSE)>>,
      <<Property(CreatorURI, "v1", FALSE)>> }

UpdateEntries ==
    { Property(TitleURI, "v1", FALSE), Property(TitleURI, "v2", FALSE),
      DeleteProperty(TitleURI),
      Property(CreatorURI, "v1", FALSE) }

UpdateProperties == UNION { [1..n -> UpdateEntries] : n \in 0..MaxProps }

\* rows the tables may hold when the service starts
SeedRows ==
    { NodeRow(NodeType_ContainerNode, S_a, "u1", 1, NULL, {}),
      NodeRow(NodeType_ContainerNode, S_a, "u2", 2, NULL, {"g1"}),
      NodeRow(NodeType_LinkNode, S_ab, "u1", 1, "t", {}),
      NodeRow(NodeType_DataNode, S_ab, "u2", 2, NULL, {}) }

SeedTables ==
    { {}, SeedRows,
      SeedRows \ { NodeRow(NodeType_ContainerNode, S_a, "u2", 2, NULL, {"g1"}) } }

NoReq ==
    [ op |-> "none", path |-> <<>>, space |-> 0, identity |-> "",
      type |-> 0, target |-> NULL, props |-> <<>> ]

Request(op, path, space, identity, type, target) ==
    [ op |-> op, path |-> path, space |-> space, identity |-> identity,
      type |-> type, target |-> target, props |-> <<>> ]

----------------------------------------------------------------------------
(* uws.py: the job table and the executor's tasks *)

TaskIds == 1..MaxTasks

\* the messages of the domain errors (VOSpaceError.error) a job body raises
ErrorMessages == {"m1", "m2"}

\* what a job body raises
Exceptions == [type : {"VOSpaceError"}, error : ErrorMessages]
              \cup { [type |-> "Exception", error |-> NULL] }

\* a row of uws_jobs; create_uws_job, lines 104-111, gives destruction and
\* job_info their values
UWSJobRow(phase, error) ==
    [phase |-> phase, error |-> error, extras |-> NULL,
     destruction |-> "utcnow + 300 s", job_info |-> "job_info"]

\* a task of the event loop: state is "none" (not created), "running" (its
\* body is scheduled or suspended), "except" (in the handler of _run),
\* "done" (finished, its done callbacks are scheduled), "closed" (its done
\* callbacks have run); raised is what the body raised, exc what the task
\* finished with
NoTask == [state |-> "none", job |-> 0, raised |-> "", error |-> NULL, exc |-> ""]

\* faulty variant: a phase update that leaves the error column alone
set_uws_phase_only(jobs, job_id, phase, error) ==
    IF job_id \in DOMAIN jobs
    THEN [jobs EXCEPT ![job_id].phase = phase]
    ELSE jobs

\* update uws_jobs set phase=$2, error=$3 where id=$1
set_uws_phase(jobs, job_id, phase, error) ==
    IF job_id \in DOMAIN jobs
    THEN [jobs EXCEPT ![job_id].phase = phase, ![job_id].error = error]
    ELSE jobs

\* faulty variant: an update of phase and extras that also resets the error
set_uws_extras_and_error(jobs, job_id, phase, extras) ==
    IF job_id \in DOMAIN jobs
    THEN [jobs EXCEPT ![job_id].phase = phase, ![job_id].extras = extras,
                      ![job_id].error = NULL]
    ELSE jobs

\* faulty variant: an update that stores the extras and leaves the phase
set_uws_extras_only(jobs, job_id, phase, extras) ==
    IF job_id \in DOMAIN jobs
    THEN [jobs EXCEPT ![job_id].extras = extras]
    ELSE jobs

\* set_uws_extras_and_phase, lines 136-140:
\* update uws_jobs set phase=$3, extras=$2 where id=$1, called with
\* (job_id, extras, phase)
set_uws_extras_and_phase(jobs, job_id, phase, extras) ==
    IF job_id \in DOMAIN jobs
    THEN [jobs EXCEPT ![job_id].phase = phase, ![job_id].extras = extras]
    ELSE jobs

\* get_uws_job, lines 114-126: the row fetched (result holds it), or
\* VOSpaceError(400) without one
get_uws_job(jobs, job_id) ==
    IF job_id \in DOMAIN jobs
    THEN [raised |-> "", result |-> <<jobs[job_id]>>]
    ELSE [raised |-> "VOSpaceError400", result |-> <<>>]

\* the field names of the namedtuple UWS_Phase, lines 9-18, by value
UWS_Phase ==
    [ i \in 0..9 |->
        CASE i = 0 -> <<"P","e","n","d","i","n","g">>
          [] i = 1 -> <<"Q","u","e","u","e","d">>
          [] i = 2 -> <<"E","x","e","c","u","t","i","n","g">>
          [] i = 3 -> <<"C","o","m","p","l","e","t","e","d">>
          [] i = 4 -> <<"E","r","r","o","r">>
          [] i = 5 -> <<"A","b","o","r","t","e","d">>
          [] i = 6 -> <<"U","n","k","n","o","w","n">>
          [] i = 7 -> <<"H","e","l","d">>
          [] i = 8 -> <<"S","u","s","p","e","n","d","e","d">>
          [] i = 9 -> <<"A","r","c","h","i","v","e","d">> ]

\* PhaseLookup, lines 22-31
PhaseLookup ==
    [ i \in 0..9 |->
        CASE i = 0 -> <<"P","E","N","D","I","N","G">>
          [] i = 1 -> <<"Q","U","E","U","E","D">>
          [] i = 2 -> <<"E","X","E","C","U","T","I","N","G">>
          [] i = 3 -> <<"C","O","M","P","L","E","T","E","D">>
          [] i = 4 -> <<"E","R","R","O","R">>
          [] i = 5 -> <<"A","B","O","R","T","E","D">>
          [] i = 6 -> <<"U","N","K","N","O","W","N">>
          [] i = 7 -> <<"H","E","L","D">>
          [] i = 8 -> <<"S","U","S","P","E","N","D","E","D">>
          [] i = 9 -> <<"A","R","C","H","I","V","E","D">> ]


\* the keys of job_tasks
registered == { e.task : e \in job_tasks }

InitExecutor ==
    /\ uws_jobs = <<>>
    /\ job_tasks = {}
    /\ tasks = [t \in TaskIds |-> NoTask]
    /\ key_error = FALSE
    /\ closing = [pc |-> "idle", slept |-> FALSE]
    /\ phase_calls = [j \in 1..MaxJobs |-> <<>>]
    /\ fetched = [job_id |-> 0, raised |-> "", result |-> <<>>]
    /\ job_call = [fn |-> "", job_id |-> 0, phase |-> 0, error |-> NULL, extras |-> NULL]

----------------------------------------------------------------------------
(* The node persistence layer as a state machine.  A request runs inside   *)
(* the caller's transaction: the rows its FOR UPDATE query returns are     *)
(* locked one by one in the query's order and stay locked until the        *)
(* request ends; its writes become visible when it ends.                   *)

InitDatabase ==
    /\ nodes \in SeedTables
    /\ props = {}
    /\ pc = [p \in Procs |-> "idle"]
    /\ req = [p \in Procs |-> NoReq]
    /\ qrows = [p \in Procs |-> <<>>]
    /\ got = [p \in Procs |-> <<>>]
    /\ last = [proc |-> 0, op |-> "none", path |-> <<>>, space |-> 0, result |-> "",
               rows |-> 0, props |-> <<>>]
    /\ nops = 0

\* rows locked by requests other than p
locked_by_others(p) == UNION { Range(got[q]) : q \in Procs \ {p} }

\* the request of p ends with result; its locks are released.  last records
\* the call and what it gave back: rows is the number of rows a DELETE
\* returned, props the property list of an update_properties that went through
finish_with(p, op, path, space, result, rows, properties) ==
    /\ pc' = [pc EXCEPT ![p] = "idle"]
    /\ req' = [req EXCEPT ![p] = NoReq]
    /\ qrows' = [qrows EXCEPT ![p] = <<>>]
    /\ got' = [got EXCEPT ![p] = <<>>]
    /\ last' = [proc |-> p, op |-> op, path |-> path, space |-> space,
                result |-> result, rows |-> rows, props |-> properties]

finish(p, op, path, space, result) ==
    finish_with(p, op, path, space, result, 0, <<>>)

finish_req(p, result) ==
    finish(p, req[p].op, req[p].path, req[p].space, result)

\* the FOR UPDATE query of p starts: it will lock the rows of q in order
start_query(p, r, q) ==
    /\ pc' = [pc EXCEPT ![p] = "lock"]
    /\ req' = [req EXCEPT ![p] = r]
    /\ qrows' = [qrows EXCEPT ![p] = q]
    /\ got' = [got EXCEPT ![p] = <<>>]
    /\ UNCHANGED last

\* insert, lines 114-133: the checks before the query, then the query
insert_start(p) ==
    /\ UNCHANGED uwsvars
    /\ UNCHANGED libvars
    /\ pc[p] = "idle"
    /\ nops < MaxOps
    /\ nops' = nops + 1
    /\ UNCHANGED <<nodes, props>>
    /\ \E path \in NodePaths, space \in Spaces, identity \in Identities,
          kind \in InsertKinds :
        LET r == Request("insert", path, space, identity, kind[1], kind[2])
            path_list == filter_none(split(path, "/"))
        IN  IF kind[1] = NodeType_LinkNode /\ kind[2] = NULL
            THEN finish(p, "insert", path, space, "VOSpaceError400")
            ELSE IF Len(path_list) = 0
            THEN finish(p, "insert", path, space, "InvalidURI")
            ELSE \E q \in order_by_path_asc(
                        node_and_parent_rows(join(path_list, "."),
                                             join(but_last(path_list), "."), space)) :
                    start_query(p, r, q)

\* update_properties, lines 167-171
update_properties_start(p) ==
    /\ UNCHANGED uwsvars
    /\ UNCHANGED libvars
    /\ pc[p] = "idle"
    /\ nops < MaxOps
    /\ nops' = nops + 1
    /\ UNCHANGED <<nodes, props>>
    /\ \E path \in NodePaths, space \in Spaces, identity \in Identities,
          type \in UpdateTypes :
        LET r == Request("update_properties", path, space, identity, type, NULL)
            t == path_to_ltree(path)
        IN  IF ~ t.ok
            THEN finish(p, "update_properties", path, space, "InvalidURI")
            ELSE \E q \in order_by_path_asc(update_rows(t.tree, type, space)) :
                    start_query(p, r, q)

\* FOR UPDATE: the next row of the result is locked, once no other request
\* holds it; a row deleted since the query started is not returned
lock_row(p) ==
    /\ UNCHANGED uwsvars
    /\ UNCHANGED libvars
    /\ pc[p] = "lock"
    /\ qrows[p] # <<>>
    /\ LET r == Head(qrows[p])
       IN  IF r \notin nodes
           THEN got' = got
           ELSE /\ r \notin locked_by_others(p)
                /\ got' = [got EXCEPT ![p] = Append(got[p], r)]
    /\ qrows' = [qrows EXCEPT ![p] = Tail(qrows[p])]
    /\ UNCHANGED <<nodes, props, pc, req, last, nops>>

\* insert, lines 133-147: the outcome of the checks on the locked rows and of
\* the createNode hook for the property list properties; "" to go on
insert_check(r, result, properties) ==
    LET path == filter_none(split(r.path, "/"))
        path_parent == but_last(path)
        np == get_node_and_parent(result, join(path_parent, "."))
        parent_row == np.parent
        hook == permits(r.space, r.identity, "createNode",
                        resultset_to_node(parent_row),
                        [path |-> r.path], properties)
    IN  IF np.error # "" THEN np.error
        ELSE IF parent_row = <<>> /\ Len(path_parent) > 0
             THEN "ContainerDoesNotExistError"
        ELSE IF parent_row # <<>> /\ parent_row[1].type = NodeType_LinkNode
             THEN "VOSpaceError400"
        ELSE IF parent_row # <<>> /\ parent_row[1].type # NodeType_ContainerNode
             THEN "ContainerDoesNotExistError"
        ELSE IF hook = "True" THEN ""
        ELSE IF hook = "False" THEN "PermissionDenied"
        ELSE hook

insert_authorize(p) ==
    /\ UNCHANGED uwsvars
    /\ UNCHANGED libvars
    /\ pc[p] = "lock"
    /\ qrows[p] = <<>>
    /\ req[p].op = "insert"
    /\ UNCHANGED <<nodes, props, nops>>
    /\ \E properties \in InsertProperties :
        LET outcome == insert_check(req[p], got[p], properties)
        IN  IF outcome = ""
            THEN /\ pc' = [pc EXCEPT ![p] = "write"]
                 /\ req' = [req EXCEPT ![p].props = properties]
                 /\ UNCHANGED <<qrows, got, last>>
            ELSE finish_req(p, outcome)

\* insert, lines 149-164: the row INSERT and the property INSERTs; a
\* uniqueness violation aborts the transaction and is DuplicateNodeError
insert_write(p) ==
    /\ UNCHANGED uwsvars
    /\ UNCHANGED libvars
    /\ pc[p] = "write"
    /\ req[p].op = "insert"
    /\ UNCHANGED nops
    /\ LET path_tree == join(filter_none(split(req[p].path, "/")), ".")
           row == NodeRow(req[p].type, path_tree, req[p].identity,
                          req[p].space, req[p].target, {})
           ins == insert_properties(props,
                      property_rows(req[p].props, path_tree, req[p].space))
       IN  IF node_unique_violation(nodes, row) \/ ~ ins.ok
           THEN /\ UNCHANGED <<nodes, props>>
                /\ finish_req(p, "DuplicateNodeError")
           ELSE /\ nodes' = nodes \cup {row}
                /\ props' = ins.props
                /\ finish_req(p, "ok")

\* faulty variant: update_properties without the call of the setNode hook
update_properties_check_nohook(r, result, properties) ==
    IF result = <<>> THEN "NodeDoesNotExistError" ELSE ""

\* update_properties, lines 172-179
update_properties_check(r, result, properties) ==
    LET node == [ path |-> r.path,
                  owner |-> result[1].owner,
                  group_write |-> result[1].groupwrite ]
        hook == permits(r.space, r.identity, "setNode", <<>>, node, properties)
    IN  IF result = <<>> THEN "NodeDoesNotExistError"
        ELSE IF hook = "True" THEN ""
        ELSE IF hook = "False" THEN "PermissionDenied"
        ELSE hook

update_properties_authorize(p) ==
    /\ UNCHANGED uwsvars
    /\ UNCHANGED libvars
    /\ pc[p] = "lock"
    /\ qrows[p] = <<>>
    /\ req[p].op = "update_properties"
    /\ UNCHANGED <<nodes, props, nops>>
    /\ \E properties \in UpdateProperties :
        LET outcome == update_properties_check(req[p], got[p], properties)
        IN  IF outcome = ""
            THEN /\ pc' = [pc EXCEPT ![p] = "write"]
                 /\ req' = [req EXCEPT ![p].props = properties]
                 /\ UNCHANGED <<qrows, got, last>>
            ELSE finish_req(p, outcome)

\* update_properties, lines 181-199
update_properties_write(p) ==
    /\ UNCHANGED uwsvars
    /\ UNCHANGED libvars
    /\ pc[p] = "write"
    /\ req[p].op = "update_properties"
    /\ UNCHANGED <<nodes, nops>>
    /\ props' = update_properties_result(props, req[p].props,
                                         path_to_ltree(req[p].path).tree, req[p].space)
    /\ finish_with(p, req[p].op, req[p].path, req[p].space, "ok", 0, req[p].props)

\* delete, lines 201-213.  The statement waits for rows other requests hold
\* and is taken at the moment it has them all.
delete(p) ==
    /\ UNCHANGED uwsvars
    /\ UNCHANGED libvars
    /\ pc[p] = "idle"
    /\ nops < MaxOps
    /\ nops' = nops + 1
    /\ UNCHANGED props
    /\ \E path \in RawPaths, space \in Spaces :
        LET t == path_to_ltree(path)
            results == delete_rows(t.tree, space)
        IN  IF ~ t.ok
            THEN /\ UNCHANGED nodes
                 /\ finish(p, "delete", path, space, "InvalidURI")
            ELSE IF results = {}
            THEN /\ UNCHANGED nodes
                 /\ finish(p, "delete", path, space, "NodeDoesNotExistError")
            ELSE /\ results \cap locked_by_others(p) = {}
                 /\ IF \E r \in results : r.path = t.tree
                    THEN /\ nodes' = nodes \ results
                         /\ finish_with(p, "delete", path, space, "ok",
                                        Cardinality(results), <<>>)
                    ELSE \* node_result stays None: TypeError after the statement
                         /\ nodes' \in { nodes, nodes \ results }
                         /\ finish(p, "delete", path, space, "TypeError")

\* delete_properties, lines 215-218
delete_properties(p) ==
    /\ UNCHANGED uwsvars
    /\ UNCHANGED libvars
    /\ pc[p] = "idle"
    /\ nops < MaxOps
    /\ nops' = nops + 1
    /\ UNCHANGED nodes
    /\ \E path \in RawPaths, space \in Spaces :
        LET t == path_to_ltree(path)
        IN  IF ~ t.ok
            THEN /\ UNCHANGED props
                 /\ finish(p, "delete_properties", path, space, "InvalidURI")
            ELSE /\ props' = props \ delete_properties_rows(t.tree, space)
                 /\ finish(p, "delete_properties", path, space, "ok")

\* directory, lines 94-112, with _resultset_to_node, lines 20-34
directory(p) ==
    /\ UNCHANGED uwsvars
    /\ UNCHANGED libvars
    /\ pc[p] = "idle"
    /\ nops < MaxOps
    /\ nops' = nops + 1
    /\ UNCHANGED <<nodes, props>>
    /\ \E path \in RawPaths, space \in Spaces, identity \in Identities \cup {NULL} :
        LET t == path_to_ltree(path)
            rows == directory_rows(t.tree, space)
        IN  IF ~ t.ok
            THEN finish(p, "directory", path, space, "InvalidURI")
            ELSE IF rows = {}
            THEN finish(p, "directory", path, space, "NodeDoesNotExistError")
            ELSE \E results \in order_by_path_asc(rows) :
                LET hook == permits(space, identity, "getNode", <<>>,
                                    NodeOfRow(results[1]), <<>>)
                    outcome ==
                        IF Len(results) > 1 /\ results[1].type # NodeType_ContainerNode
                        THEN "AssertionError"
                        ELSE IF identity = NULL \/ hook = "True" THEN "ok"
                        ELSE IF hook = "False" THEN "PermissionDenied"
                        ELSE hook
                IN  finish(p, "directory", path, space, outcome)

\* no call of permits
NoPermitsCall ==
    [found |-> {}, identity |-> "", permission |-> "", context |-> <<>>]

\* no session, no request made
NoAuthRequest == [seq |-> 0, space |-> 0, op |-> "none", header |-> <<>>, status |-> 0]

InitSession ==
    /\ remembered = [sp \in Spaces |-> ""]
    /\ auth_response = NoAuthRequest
    /\ session_change = [sp \in Spaces |-> NoAuthRequest]

InitPermits ==
    /\ permits_call = NoPermitsCall
    /\ permits_result = "none"

\* a reader of nothing over an empty source
NoReader ==
    [content_length |-> 0, source |-> <<>>, pos |-> 0, bytes_read |-> 0,
     chunks |-> <<>>, last |-> "", reads |-> 0]

InitReaderIdle == reader = NoReader

NoTreeCall ==
    [seq |-> 0, op |-> "", target |-> <<>>, nodes |-> <<>>,
     overwrite |-> FALSE, raised |-> ""]

\* ContainerNode.__init__, lines 763-770: no children
InitTree ==
    /\ tree = [path |-> <<"a">>, node_type |-> NodeType_ContainerNode, _nodes |-> {}]
    /\ tree_call = NoTreeCall

\* the model objects no call was made on, but for those named in active
InitModel(active) ==
    /\ "props_node" \in active
       \/ props_node = [properties |-> <<>>, op |-> "", given |-> <<>>, seq |-> 0]
    /\ "transfer" \in active
       \/ transfer = [target |-> <<>>, direction |-> <<>>, keep_bytes |-> <<>>,
                      outcome |-> <<>>]
    /\ "xml" \in active \/ xml = [node |-> <<>>, string |-> <<>>, parsed |-> <<>>]
    /\ "label" \in active \/ label = [path |-> <<>>, ltree |-> <<>>, back |-> <<>>]

InitLib == InitPermits /\ InitSession /\ InitReaderIdle /\ InitTree /\ InitModel({})

Init == InitDatabase /\ InitExecutor /\ InitLib

Next ==
    \E p \in Procs :
        \/ insert_start(p)
        \/ update_properties_start(p)
        \/ lock_row(p)
        \/ insert_authorize(p)
        \/ insert_write(p)
        \/ update_properties_authorize(p)
        \/ update_properties_write(p)
        \/ delete(p)
        \/ delete_properties(p)
        \/ directory(p)

Spec == Init /\ [][Next]_vars

----------------------------------------------------------------------------
(* The job table and the executor as a state machine.  The event loop runs *)
(* one callback at a time: a coroutine runs without interruption between   *)
(* two awaits, and the done callbacks of a task run in a later iteration   *)
(* of the loop than the step that finishes the task.                       *)

\* create_uws_job, lines 104-111: a new row with the next id
create_uws_job ==
    /\ Len(uws_jobs) < MaxJobs
    /\ uws_jobs' = Append(uws_jobs, UWSJobRow(UWSPhase_Pending, NULL))
    /\ phase_calls' = [phase_calls EXCEPT ![Len(uws_jobs) + 1] = <<>>]
    /\ UNCHANGED <<job_tasks, tasks, key_error>>
    /\ UNCHANGED closing
    /\ UNCHANGED <<fetched, job_call>>
    /\ UNCHANGED dbvars
    /\ UNCHANGED libvars

\* a request handler calls set_uws_phase, lines 129-133
set_uws_phase_call ==
    /\ \E job_id \in 1..MaxJobs,
          call \in { <<UWSPhase_Completed, NULL>> } :
            /\ uws_jobs' = set_uws_phase(uws_jobs, job_id, call[1], call[2])
            /\ uws_jobs' # uws_jobs
            /\ phase_calls' = [phase_calls EXCEPT ![job_id] = <<call[1]>>]
    /\ UNCHANGED <<job_tasks, tasks, key_error>>
    /\ UNCHANGED closing
    /\ UNCHANGED <<fetched, job_call>>
    /\ UNCHANGED dbvars
    /\ UNCHANGED libvars

\* faulty variant: execute that schedules the task and does not register it
execute_unregistered(job) ==
    /\ job \in DOMAIN uws_jobs
    /\ \E task \in TaskIds :
        /\ tasks[task].state = "none"
        /\ \A t \in TaskIds : t < task => tasks[t].state # "none"
        /\ tasks' = [tasks EXCEPT ![task] = [NoTask EXCEPT !.state = "running",
                                                          !.job = job]]
    /\ UNCHANGED <<uws_jobs, job_tasks, key_error>>
    /\ UNCHANGED closing
    /\ UNCHANGED jobvars
    /\ UNCHANGED dbvars
    /\ UNCHANGED libvars

\* execute, lines 82-85: ensure_future, the registration and
\* add_done_callback run with no await in between
execute(job) ==
    /\ job \in DOMAIN uws_jobs
    /\ \E task \in TaskIds :
        /\ tasks[task].state = "none"
        /\ \A t \in TaskIds : t < task => tasks[t].state # "none"
        /\ tasks' = [tasks EXCEPT ![task] = [NoTask EXCEPT !.state = "running",
                                                          !.job = job]]
        /\ job_tasks' = { e \in job_tasks : e.task # task }
                          \cup { [task |-> task, job |-> job] }
    /\ UNCHANGED <<uws_jobs, key_error>>
    /\ UNCHANGED closing
    /\ UNCHANGED jobvars
    /\ UNCHANGED dbvars
    /\ UNCHANGED libvars

\* _run, line 89: the job body records a phase of its job
run_func_phase(task) ==
    /\ tasks[task].state = "running"
    /\ uws_jobs' = set_uws_phase(uws_jobs, tasks[task].job, UWSPhase_Executing, NULL)
    /\ uws_jobs' # uws_jobs
    /\ phase_calls' = [phase_calls EXCEPT ![tasks[task].job] = <<UWSPhase_Executing>>]
    /\ UNCHANGED <<job_tasks, tasks, key_error>>
    /\ UNCHANGED closing
    /\ UNCHANGED <<fetched, job_call>>
    /\ UNCHANGED dbvars
    /\ UNCHANGED libvars

\* _run, line 89: the job body returns
run_func_returns(task) ==
    /\ tasks[task].state = "running"
    /\ tasks' = [tasks EXCEPT ![task].state = "done"]
    /\ UNCHANGED <<uws_jobs, job_tasks, key_error>>
    /\ UNCHANGED closing
    /\ UNCHANGED jobvars
    /\ UNCHANGED dbvars
    /\ UNCHANGED libvars

\* faulty variant: a handler that catches every exception
run_func_raises_all(task) ==
    /\ tasks[task].state = "running"
    /\ \E e \in Exceptions :
        tasks' = [tasks EXCEPT ![task] =
                    [@ EXCEPT !.state = "except", !.raised = e.type,
                              !.error = IF e.error = NULL THEN "m1" ELSE e.error]]
    /\ UNCHANGED <<uws_jobs, job_tasks, key_error>>
    /\ UNCHANGED closing
    /\ UNCHANGED jobvars
    /\ UNCHANGED dbvars
    /\ UNCHANGED libvars

\* _run, lines 88-91: the job body raises; only VOSpaceError is caught
run_func_raises(task) ==
    /\ tasks[task].state = "running"
    /\ \E e \in Exceptions :
        tasks' = [tasks EXCEPT ![task] =
                    IF e.type = "VOSpaceError"
                    THEN [@ EXCEPT !.state = "except", !.raised = e.type,
                                   !.error = e.error]
                    ELSE [@ EXCEPT !.state = "done", !.raised = e.type,
                                   !.exc = e.type]]
    /\ UNCHANGED <<uws_jobs, job_tasks, key_error>>
    /\ UNCHANGED closing
    /\ UNCHANGED jobvars
    /\ UNCHANGED dbvars
    /\ UNCHANGED libvars

\* _run, lines 91-92: the handler records the error and _run returns
run_except(task) ==
    /\ tasks[task].state = "except"
    /\ uws_jobs' = set_uws_phase(uws_jobs, tasks[task].job, UWSPhase_Error,
                                 tasks[task].error)
    /\ phase_calls' = [phase_calls EXCEPT ![tasks[task].job] = <<UWSPhase_Error>>]
    /\ tasks' = [tasks EXCEPT ![task].state = "done"]
    /\ UNCHANGED <<job_tasks, key_error>>
    /\ UNCHANGED closing
    /\ UNCHANGED <<fetched, job_call>>
    /\ UNCHANGED dbvars
    /\ UNCHANGED libvars

\* _done, lines 94-95: del self.job_tasks[task]
done(task) ==
    /\ tasks[task].state = "done"
    /\ tasks' = [tasks EXCEPT ![task].state = "closed"]
    /\ IF task \in registered
       THEN /\ job_tasks' = { e \in job_tasks : e.task # task }
            /\ UNCHANGED key_error
       ELSE /\ key_error' = TRUE
            /\ UNCHANGED job_tasks
    /\ UNCHANGED uws_jobs
    /\ UNCHANGED closing
    /\ UNCHANGED jobvars
    /\ UNCHANGED dbvars
    /\ UNCHANGED libvars

\* faulty variant: a close that returns at its first wake-up
close_wake_now ==
    /\ closing.pc = "sleeping"
    /\ closing' = [closing EXCEPT !.pc = "returned"]
    /\ UNCHANGED <<uws_jobs, job_tasks, tasks, key_error>>
    /\ UNCHANGED jobvars
    /\ UNCHANGED dbvars
    /\ UNCHANGED libvars

\* close, lines 97-101: the call and the first test of the loop
close ==
    /\ closing.pc = "idle"
    /\ closing' = IF job_tasks = {}
                  THEN [closing EXCEPT !.pc = "returned"]
                  ELSE [pc |-> "sleeping", slept |-> TRUE]
    /\ UNCHANGED <<uws_jobs, job_tasks, tasks, key_error>>
    /\ UNCHANGED jobvars
    /\ UNCHANGED dbvars
    /\ UNCHANGED libvars

\* close, lines 98-101: asyncio.sleep(0.1) is over, the loop tests again
close_wake ==
    /\ closing.pc = "sleeping"
    /\ closing' = IF job_tasks = {}
                  THEN [closing EXCEPT !.pc = "returned"]
                  ELSE closing
    /\ UNCHANGED <<uws_jobs, job_tasks, tasks, key_error>>
    /\ UNCHANGED jobvars
    /\ UNCHANGED dbvars
    /\ UNCHANGED libvars

\* the phases the clients of the job table pass
JobPhases == {UWSPhase_Pending, UWSPhase_Executing, UWSPhase_Completed}

\* a client calls set_uws_phase, lines 129-133, for any job id
set_uws_phase_any ==
    /\ \E job_id \in 1..MaxJobs, phase \in JobPhases, error \in {NULL, "m1"} :
        /\ uws_jobs' = set_uws_phase(uws_jobs, job_id, phase, error)
        /\ phase_calls' = IF job_id \in DOMAIN uws_jobs
                          THEN [phase_calls EXCEPT ![job_id] = <<phase>>]
                          ELSE phase_calls
        /\ job_call' = [fn |-> "set_uws_phase", job_id |-> job_id, phase |-> phase,
                        error |-> error, extras |-> NULL]
    /\ UNCHANGED <<job_tasks, tasks, key_error, closing, fetched>>
    /\ UNCHANGED dbvars
    /\ UNCHANGED libvars

\* a client calls set_uws_extras_and_phase, lines 136-140, for any job id
set_uws_extras_and_phase_any ==
    /\ \E job_id \in 1..MaxJobs, phase \in JobPhases, extras \in {"x1"} :
        /\ uws_jobs' = set_uws_extras_and_phase(uws_jobs, job_id, phase, extras)
        /\ phase_calls' = IF job_id \in DOMAIN uws_jobs
                          THEN [phase_calls EXCEPT ![job_id] = <<phase>>]
                          ELSE phase_calls
        /\ job_call' = [fn |-> "set_uws_extras_and_phase", job_id |-> job_id,
                        phase |-> phase, error |-> NULL, extras |-> extras]
    /\ UNCHANGED <<job_tasks, tasks, key_error, closing, fetched>>
    /\ UNCHANGED dbvars
    /\ UNCHANGED libvars

\* a client calls get_uws_job, lines 114-126, for any job id
get_uws_job_any ==
    /\ \E job_id \in 1..MaxJobs :
        fetched' = [job_id |-> job_id,
                    raised |-> get_uws_job(uws_jobs, job_id).raised,
                    result |-> get_uws_job(uws_jobs, job_id).result]
    /\ UNCHANGED <<uws_jobs, job_tasks, tasks, key_error, closing, phase_calls, job_call>>
    /\ UNCHANGED dbvars
    /\ UNCHANGED libvars

\* the job table under its clients alone, one call after the other
NextUWSJobs ==
    \/ create_uws_job
    \/ set_uws_phase_any
    \/ set_uws_extras_and_phase_any
    \/ get_uws_job_any

InitUWS == InitDatabase /\ nodes = {} /\ InitExecutor /\ InitLib

NextUWS ==
    \/ create_uws_job
    \/ set_uws_phase_call
    \/ close
    \/ close_wake
    \/ \E job \in 1..MaxJobs : execute(job)
    \/ \E task \in TaskIds :
        \/ run_func_phase(task)
        \/ run_func_returns(task)
        \/ run_func_raises(task)
        \/ run_except(task)
        \/ done(task)

SpecUWS == InitUWS /\ [][NextUWS]_vars

SpecUWSJobs == InitUWS /\ [][NextUWSJobs]_vars

\* the event loop runs every callback that is ready, and the statement of
\* set_uws_phase returns
SpecUWSFair ==
    /\ SpecUWS
    /\ \A task \in TaskIds : WF_vars(run_except(task)) /\ WF_vars(done(task))

\* in addition every job body completes or fails, and the sleep of close ends
SpecUWSDrain ==
    /\ SpecUWSFair
    /\ WF_vars(close_wake)
    /\ \A task \in TaskIds :
         WF_vars(run_func_returns(task) \/ run_func_raises(task))

----------------------------------------------------------------------------
(* auth.py: permits as a function of its arguments *)

\* the rows "select * from users where username=$1 and space_name=$2" can give
UserRows(identity) ==
    { [username |-> identity, admin |-> a, groupread |-> gr, groupwrite |-> gw] :
        a \in BOOLEAN, gr \in { {}, {"g1"} }, gw \in { {}, {"g1"}, {"g2"} } }

\* the result of the select: no row, or one
Found(identity) == { {} } \cup { {u} : u \in UserRows(identity) }

\* the root of the space and a node below it
RootUri == <<"/">>
AuthUris == { RootUri, <<"/", "a">> }

AuthNodes ==
    { Node(p, o, gr, gw) :
        p \in AuthUris, o \in Identities, gr \in { {}, {"g1"} }, gw \in { {}, {"g1"} } }

AuthLeaves == { n \in AuthNodes : n.path # uri_to_path(RootUri) }

AuthJobs ==
    { [owner |-> o, transfer |-> [class |-> c, target |-> n]] :
        o \in Identities, c \in {"PushToSpace", "PullFromSpace"}, n \in AuthLeaves }

AuthProperties ==
    { <<>>,
      <<Property(TitleURI, "v1", FALSE)>>,
      <<Property(CreatorURI, "v1", FALSE)>>,
      <<Property(TitleURI, "v1", FALSE), Property(CreatorURI, "v1", FALSE)>> }

NodePermissions == {"createNode", "setNode", "getNode", "moveNode", "copyNode",
                    "createTransfer", "deleteNode", "dataTransfer"}
JobPermissions == {"runJob", "abortJob"}
OtherPermissions == {"", "listNodes", "createnode"}
Permissions == NodePermissions \cup JobPermissions \cup OtherPermissions

\* a context whose parts are not read by the permission
NoContext ==
    LET node == Node(RootUri, "", {}, {})
    IN  [parent |-> <<>>, node |-> node, properties |-> <<>>,
         src |-> node, dest |-> node,
         job |-> [owner |-> "", transfer |-> [class |-> "", target |-> node]]]

\* the contexts passed with a permission
Contexts(permission) ==
    IF permission = "createNode"
        THEN { [NoContext EXCEPT !.parent = p, !.properties = ps] :
                 p \in { <<>> } \cup { <<n>> : n \in AuthNodes }, ps \in AuthProperties }
    ELSE IF permission = "setNode"
        THEN { [NoContext EXCEPT !.node = n, !.properties = ps] :
                 n \in AuthNodes, ps \in AuthProperties }
    ELSE IF permission \in {"getNode", "deleteNode"}
        THEN { [NoContext EXCEPT !.node = n] : n \in AuthNodes }
    ELSE IF permission \in {"moveNode", "copyNode"}
        THEN { [NoContext EXCEPT !.src = n, !.dest = d] :
                 n \in AuthLeaves, d \in AuthNodes }
    ELSE IF permission \in {"dataTransfer", "runJob", "abortJob"}
        THEN { [NoContext EXCEPT !.job = j] : j \in AuthJobs }
    ELSE { NoContext }

PermitsCalls ==
    UNION { { [found |-> f, identity |-> i, permission |-> perm, context |-> c] :
                f \in Found(i), c \in Contexts(perm) } :
            i \in Identities, perm \in Permissions }

InitAuth ==
    /\ InitDatabase /\ nodes = {}
    /\ InitExecutor
    /\ InitSession /\ InitReaderIdle /\ InitTree /\ InitModel({})
    /\ permits_call \in PermitsCalls
    /\ permits_result = "none"

\* permits is called with the arguments drawn
permits_apply ==
    /\ permits_result = "none"
    /\ permits_result' = permits_user(permits_call.found, permits_call.identity,
                                      permits_call.permission, permits_call.context)
    /\ UNCHANGED permits_call
    /\ UNCHANGED <<dbvars, uwsvars, sessionvars, readervars, treevars, modelvars>>

SpecAuth == InitAuth /\ [][permits_apply]_vars

----------------------------------------------------------------------------
(* auth.py: DBUserAuthentication, login and logout *)

MaxRequests == 3

\* Authorization headers: <<>> is a request without one; otherwise the
\* scheme and the decoded payload, a sequence of symbols in which a user
\* name is one symbol
BasicHeader(payload) == <<[scheme |-> "Basic", payload |-> payload]>>

Headers ==
    { <<>>,
      <<[scheme |-> "Bearer", payload |-> <<"u1", ":", "p">>]>>,
      BasicHeader(<<"u1", "p">>),
      BasicHeader(<<"u1", ":", "p">>),
      BasicHeader(<<"u1", ":", "q">>),
      BasicHeader(<<"u1", ":", "x">>),
      BasicHeader(<<"u2", ":", "p", ":", "q">>),
      BasicHeader(<<"u3", ":", "p">>) }

\* helpers.BasicAuth.decode(request.headers['Authorization']), line 201:
\* KeyError without the header, ValueError for another scheme or a payload
\* without ':'; login and password are split at the first ':'
BasicAuth_decode(header) ==
    IF header = <<>> THEN [raised |-> "KeyError", login |-> <<>>, password |-> <<>>]
    ELSE IF header[1].scheme # "Basic"
        THEN [raised |-> "ValueError", login |-> <<>>, password |-> <<>>]
    ELSE LET parts == split(header[1].payload, ":")
         IN  IF Len(parts) < 2
             THEN [raised |-> "ValueError", login |-> <<>>, password |-> <<>>]
             ELSE [raised |-> "", login |-> parts[1],
                   password |-> join(Tail(parts), ":")]

\* faulty variant: the user is looked up in every space
get_user_any_space(space_name, identity) ==
    { u \in users : <<u.username>> = identity }

\* get_user, lines 185-188: the rows of the select, none or one
get_user(space_name, identity) ==
    { u \in users : <<u.username>> = identity /\ u.space_name = space_name }

\* check_credentials, lines 190-197: the username as the session keeps it,
\* or "" for None
check_credentials(space_name, username, password) ==
    LET user == get_user(space_name, username)
    IN  IF user = {} THEN ""
        ELSE IF \E u \in user : pbkdf2_sha256_verify(password, u.password)
        THEN username[1]
        ELSE ""

\* the response of login, lines 199-215, and the identity remembered
login_outcome(space_name, header) ==
    LET auth == BasicAuth_decode(header)
        user == check_credentials(space_name, auth.login, auth.password)
    IN  IF auth.raised # "" THEN [status |-> 403, remember |-> ""]
        ELSE IF user = "" THEN [status |-> 403, remember |-> ""]
        ELSE [status |-> 200, remember |-> user]

\* a login request to the application of a space
login(space_name, header) ==
    LET out == login_outcome(space_name, header)
        request == [seq |-> auth_response.seq + 1, space |-> space_name,
                    op |-> "login", header |-> header, status |-> out.status]
    IN  /\ auth_response.seq < MaxRequests
        /\ auth_response' = request
        /\ IF out.status = 200
           THEN /\ remembered' = [remembered EXCEPT ![space_name] = out.remember]
                /\ session_change' = [session_change EXCEPT ![space_name] = request]
           ELSE UNCHANGED <<remembered, session_change>>
        /\ UNCHANGED <<dbvars, uwsvars, authvars, readervars, treevars, modelvars>>

\* logout, lines 217-223: forget(request, response)
logout(space_name) ==
    LET request == [seq |-> auth_response.seq + 1, space |-> space_name,
                    op |-> "logout", header |-> <<>>, status |-> 200]
    IN  /\ auth_response.seq < MaxRequests
        /\ auth_response' = request
        /\ remembered' = [remembered EXCEPT ![space_name] = ""]
        /\ session_change' = [session_change EXCEPT ![space_name] = request]
        /\ UNCHANGED <<dbvars, uwsvars, authvars, readervars, treevars, modelvars>>

NextLogin ==
    \E space_name \in Spaces :
        \/ \E header \in Headers : login(space_name, header)
        \/ logout(space_name)

\* no session remembered; the other components idle
SpecLogin == InitUWS /\ [][NextLogin]_vars

----------------------------------------------------------------------------
(* ngas/utils.py: ControlledReader *)

\* io.DEFAULT_BUFFER_SIZE, scaled down
DEFAULT_BUFFER_SIZE == 2
MaxContentLength == 4
MaxSource == 5
MaxReads == 5

\* faulty variant: a full buffer is asked for while anything is left
bytes_to_read_buffer(content_length, bytes_read) ==
    IF content_length - bytes_read <= 0 THEN 0 ELSE DEFAULT_BUFFER_SIZE

\* __anext__, line 66
bytes_to_read(content_length, bytes_read) ==
    IF DEFAULT_BUFFER_SIZE <= content_length - bytes_read
    THEN DEFAULT_BUFFER_SIZE
    ELSE content_length - bytes_read

\* __init__, lines 55-59, over a source of m bytes 1, 2, ..., m
ControlledReader(content, content_length) ==
    [content_length |-> content_length, source |-> content, pos |-> 0,
     bytes_read |-> 0, chunks |-> <<>>, last |-> "", reads |-> 0]

InitReader ==
    /\ InitDatabase /\ nodes = {}
    /\ InitExecutor
    /\ InitPermits /\ InitSession /\ InitTree /\ InitModel({})
    /\ \E content_length \in -1..MaxContentLength, m \in 0..MaxSource :
         reader = ControlledReader([i \in 1..m |-> i], content_length)

\* __anext__, lines 64-72; readexactly(n) returns the next n bytes, or
\* raises IncompleteReadError at the end of a source that holds fewer
anext ==
    LET n == bytes_to_read(reader.content_length, reader.bytes_read)
    IN  /\ reader.reads < MaxReads
        /\ reader' =
             IF n <= 0
             THEN [reader EXCEPT !.last = "StopAsyncIteration", !.reads = @ + 1]
             ELSE IF Len(reader.source) - reader.pos >= n
             THEN [reader EXCEPT
                     !.chunks = Append(@, SubSeq(reader.source, reader.pos + 1,
                                                reader.pos + n)),
                     !.pos = @ + n,
                     !.bytes_read = @ + n,
                     !.last = "chunk",
                     !.reads = @ + 1]
             ELSE [reader EXCEPT !.pos = Len(reader.source),
                                 !.last = "IncompleteReadError",
                                 !.reads = @ + 1]
        /\ UNCHANGED <<dbvars, uwsvars, authvars, sessionvars, treevars, modelvars>>

SpecReader == InitReader /\ [][anext]_vars

----------------------------------------------------------------------------
(* model.py: ContainerNode.insert_node_into_tree *)

MaxInserts == 3

\* the path of the root ContainerNode
TreeRoot == <<"a">>

\* os.path.dirname and os.path.basename of a normalised path
os_path_dirname(path) == join(but_last(split(path, "/")), "/")
os_path_basename(path) == split(path, "/")[Len(split(path, "/"))]

\* str.startswith
startswith(str, prefix) ==
    Len(str) >= Len(prefix) /\ SubSeq(str, 1, Len(prefix)) = prefix

\* a node as the tree keeps it: Node.path, the class, and the _nodes of a
\* ContainerNode, one entry per key
TreeNode(path, node_type) ==
    [path |-> uri_to_path(path), node_type |-> node_type, _nodes |-> {}]

\* _nodes.get(name) of the OrderedDict
nodes_get(_nodes, name) == { e \in _nodes : e.key = name }

\* _nodes[name] = copy.deepcopy(node)
nodes_set(_nodes, name, node) ==
    { e \in _nodes : e.key # name } \cup { [key |-> name, node |-> node] }

\* faulty variant: the child is stored whatever its dirname is
add_node_unchecked(self, node, overwrite) ==
    [raised |-> "",
     self |-> [self EXCEPT !._nodes = nodes_set(@, os_path_basename(node.path), node)]]

\* add_node, lines 847-852, with check_path, lines 798-802; Node.name is the
\* basename of the path, Node.dirname its dirname
add_node(self, node, overwrite) ==
    IF self.path # os_path_dirname(node.path)
    THEN [raised |-> "InvalidArgument: is not a parent of", self |-> self]
    ELSE IF ~ overwrite /\ nodes_get(self._nodes, os_path_basename(node.path)) # {}
    THEN [raised |-> "InvalidArgument: duplicate node", self |-> self]
    ELSE [raised |-> "",
          self |-> [self EXCEPT !._nodes = nodes_set(@, os_path_basename(node.path), node)]]

\* the loop of the nodes setter, lines 811-812: an add_node that raises ends it
RECURSIVE add_nodes(_, _)
add_nodes(self, value) ==
    IF value = <<>> THEN [raised |-> "", self |-> self]
    ELSE LET added == add_node(self, Head(value), TRUE)
         IN  IF added.raised # "" THEN added ELSE add_nodes(added.self, Tail(value))

\* the nodes setter, lines 804-812
nodes_setter(self, value) ==
    IF value = <<>> THEN [raised |-> "", self |-> self]
    ELSE add_nodes([self EXCEPT !._nodes = {}], value)

\* faulty variant: a missing segment does not stop the insertion
no_child_attach(parent_node, path_split, node_to_insert) ==
    [raised |-> "",
     self |-> [parent_node EXCEPT
                 !._nodes = nodes_set(@, os_path_basename(node_to_insert.path),
                                      node_to_insert)]]

\* _insert_node_into_tree, lines 827-835: no child of that name; path_split
\* is what remains after the name
no_child(parent_node, path_split, node_to_insert) ==
    IF Len(path_split) = 0
    THEN add_node(parent_node, node_to_insert, TRUE)
    ELSE [raised |-> "InvalidArgument: no path to", self |-> parent_node]

\* faulty variant: an existing child is replaced whatever overwrite is
existing_child_replace(parent_node, path_split, node_to_insert, overwrite) ==
    add_node(parent_node, node_to_insert, TRUE)

\* _insert_node_into_tree, lines 821-826: a child of that name which is not
\* a container to descend into
existing_child(parent_node, path_split, node_to_insert, overwrite) ==
    IF overwrite
    THEN LET added == add_node(parent_node, node_to_insert, TRUE)
         IN  IF added.raised = "" /\ path_split # <<>>
             THEN [added EXCEPT !.raised = "AssertionError"]
             ELSE added
    ELSE [raised |-> "InvalidArgument: duplicate node", self |-> parent_node]

\* faulty variant: any child is descended into while segments remain
descends_any(node, path_split) == path_split # <<>>

\* _insert_node_into_tree, line 819
descends(node, path_split) ==
    node.node_type = NodeType_ContainerNode /\ path_split # <<>>

\* _insert_node_into_tree, lines 814-835; the result holds parent_node as
\* the call leaves it
RECURSIVE _insert_node_into_tree(_, _, _, _)
_insert_node_into_tree(parent_node, path_split, node_to_insert, overwrite) ==
    IF path_split = <<>> THEN [raised |-> "", self |-> parent_node]
    ELSE LET name == Head(path_split)
             rest == Tail(path_split)
             found == nodes_get(parent_node._nodes, name)
             node == (CHOOSE e \in found : TRUE).node
         IN  IF found # {}
             THEN IF descends(node, rest)
                  THEN LET inner == _insert_node_into_tree(node, rest, node_to_insert,
                                                           overwrite)
                       IN  [raised |-> inner.raised,
                            self |-> [parent_node EXCEPT
                                        !._nodes = nodes_set(@, name, inner.self)]]
                  ELSE existing_child(parent_node, rest, node_to_insert, overwrite)
             ELSE no_child(parent_node, rest, node_to_insert)

\* insert_node_into_tree, lines 837-845
insert_node_into_tree(self, node, overwrite) ==
    IF ~ startswith(node.path, self.path)
    THEN [raised |-> "InvalidArgument: Invalid node path.", self |-> self]
    ELSE IF node.path = self.path
    THEN [raised |-> "InvalidArgument: Can not insert over root node.", self |-> self]
    ELSE LET node_path == SubSeq(node.path, Len(self.path) + 1, Len(node.path))
             path_split == filter_none(split(node_path, "/"))
         IN  _insert_node_into_tree(self, path_split, node, overwrite)

TreeUris ==
    { <<"a">>, <<"a", "/", "b">>, <<"a", "/", "b", "/", "c">>,
      <<"a", "/", "x", "/", "y">>, <<"a", "b">>, <<"a", "b", "/", "c">>, <<"b">>,
      <<"/", "a", "/", "b", "/">> }

\* the nodes callers hand over: childless nodes of three classes, and the
\* container a/b built with the child a/b/c
TreeNodes ==
    { TreeNode(uri, node_type) :
        uri \in TreeUris,
        node_type \in {NodeType_ContainerNode, NodeType_DataNode, NodeType_LinkNode} }
    \cup { nodes_setter(TreeNode(<<"a", "/", "b">>, NodeType_ContainerNode),
                        << TreeNode(<<"a", "/", "b", "/", "c">>, NodeType_DataNode) >>).self }

\* the lists a caller assigns to nodes
TreeLists ==
    LET some == { n \in TreeNodes :
                    /\ n.path \in { <<"a", "/", "b">>, <<"a", "/", "b", "/", "c">>, <<"a", "b">> }
                    /\ n.node_type # NodeType_LinkNode }
    IN  { <<>> } \cup { <<n>> : n \in some } \cup { <<n, m>> : n \in some, m \in some }

\* the containers a caller holds: the root, <<>>, and the container children
\* of the root, by key
TreeTargets ==
    { <<>> } \cup { <<e.key>> : e \in { c \in tree._nodes :
                                         c.node.node_type = NodeType_ContainerNode } }

\* the container of a target, and the root after a call on it left it as out
TargetNode(target) ==
    IF target = <<>> THEN tree
    ELSE (CHOOSE e \in tree._nodes : e.key = target[1]).node
TargetSet(target, out) ==
    IF target = <<>> THEN out
    ELSE [tree EXCEPT !._nodes = nodes_set(@, target[1], out)]

\* a caller inserts a node into the tree of the root
tree_insert ==
    \E node \in TreeNodes, overwrite \in BOOLEAN :
        LET out == insert_node_into_tree(tree, node, overwrite)
        IN  /\ tree_call.seq < MaxInserts
            /\ tree' = out.self
            /\ tree_call' = [seq |-> tree_call.seq + 1, op |-> "insert_node_into_tree",
                             target |-> <<>>, nodes |-> <<node>>,
                             overwrite |-> overwrite, raised |-> out.raised]
            /\ UNCHANGED <<dbvars, uwsvars, authvars, sessionvars, readervars, modelvars>>

\* a caller adds a node to a container it holds
tree_add_node ==
    \E target \in TreeTargets, node \in TreeNodes, overwrite \in BOOLEAN :
        LET out == add_node(TargetNode(target), node, overwrite)
        IN  /\ tree_call.seq < MaxInserts
            /\ tree' = TargetSet(target, out.self)
            /\ tree_call' = [seq |-> tree_call.seq + 1, op |-> "add_node",
                             target |-> target, nodes |-> <<node>>,
                             overwrite |-> overwrite, raised |-> out.raised]
            /\ UNCHANGED <<dbvars, uwsvars, authvars, sessionvars, readervars, modelvars>>

\* a caller assigns a list to the nodes of a container it holds
tree_set_nodes ==
    \E target \in TreeTargets, value \in TreeLists :
        LET out == nodes_setter(TargetNode(target), value)
        IN  /\ tree_call.seq < MaxInserts
            /\ tree' = TargetSet(target, out.self)
            /\ tree_call' = [seq |-> tree_call.seq + 1, op |-> "nodes",
                             target |-> target, nodes |-> value,
                             overwrite |-> TRUE, raised |-> out.raised]
            /\ UNCHANGED <<dbvars, uwsvars, authvars, sessionvars, readervars, modelvars>>

NextTree == tree_insert \/ tree_add_node \/ tree_set_nodes

\* the root ContainerNode without children; the other components idle
SpecTree == InitUWS /\ [][NextTree]_vars

----------------------------------------------------------------------------
(* model.py: the property list of a Node *)

MaxPropertyCalls == 2

\* Python's < of two strings
str_less(x, y) == ltree_less(x, y)

\* list.sort(key=lambda x: x.uri), a stable sort: an element goes behind
\* the elements of the sorted rest that do not come after it
RECURSIVE sort_insert(_, _)
sort_insert(sorted, prop) ==
    IF sorted = <<>> THEN << prop >>
    ELSE IF str_less(prop.uri, Head(sorted).uri)
         THEN << prop >> \o sorted
         ELSE << Head(sorted) >> \o sort_insert(Tail(sorted), prop)

\* faulty variant: the list is left as it is
sort_properties_none(properties) == properties

\* sort_properties, lines 542-543
RECURSIVE sort_properties(_)
sort_properties(properties) ==
    IF properties = <<>> THEN <<>>
    ELSE sort_insert(sort_properties(SubSeq(properties, 1, Len(properties) - 1)),
                     properties[Len(properties)])

\* set_properties, lines 583-593, of a node whose list is properties
set_properties(properties, property_list, sort) ==
    IF property_list = <<>> THEN properties
    ELSE IF sort THEN sort_properties(property_list) ELSE property_list

\* add_property, lines 595-600
add_property(properties, value, sort) ==
    IF sort THEN sort_properties(Append(properties, value))
    ELSE Append(properties, value)

\* the property lists callers hand over, None and [] being <<>>
PropertyLists ==
    LET uris == { <<"a">>, <<"a", "b">>, <<"b">> }
        some == { Property(uri, "v", TRUE) : uri \in uris }
                \cup { DeleteProperty(uri) : uri \in uris }
    IN  { <<>> } \cup { <<p>> : p \in some } \cup { <<p, q>> : p \in some, q \in some }

\* Node.__init__, lines 410-417, with a property list
InitProperties ==
    /\ InitDatabase /\ nodes = {}
    /\ InitExecutor
    /\ InitPermits /\ InitSession /\ InitReaderIdle /\ InitTree
    /\ InitModel({"props_node"})
    /\ \E properties \in PropertyLists :
         props_node = [properties |-> set_properties(<<>>, properties, TRUE),
                       op |-> IF properties = <<>> THEN "__init__" ELSE "__init__ list",
                       given |-> properties, seq |-> 0]

node_set_properties ==
    \E property_list \in PropertyLists, sort \in BOOLEAN :
        /\ props_node.seq < MaxPropertyCalls
        /\ props_node' =
             [properties |-> set_properties(props_node.properties, property_list, sort),
              op |-> IF property_list = <<>> THEN "set_properties"
                     ELSE IF sort THEN "set_properties list sort"
                     ELSE "set_properties list",
              given |-> property_list, seq |-> props_node.seq + 1]
        /\ UNCHANGED <<dbvars, uwsvars, authvars, sessionvars, readervars, treevars,
                       transfer, xml, label>>

node_add_property ==
    \E property_list \in PropertyLists, sort \in BOOLEAN :
        /\ props_node.seq < MaxPropertyCalls
        /\ Len(property_list) = 1
        /\ props_node' =
             [properties |-> add_property(props_node.properties, property_list[1], sort),
              op |-> IF sort THEN "add_property sort" ELSE "add_property",
              given |-> property_list, seq |-> props_node.seq + 1]
        /\ UNCHANGED <<dbvars, uwsvars, authvars, sessionvars, readervars, treevars,
                       transfer, xml, label>>

node_sort_properties ==
    /\ props_node.seq < MaxPropertyCalls
    /\ props_node' = [properties |-> sort_properties(props_node.properties),
                      op |-> "sort_properties", given |-> <<>>,
                      seq |-> props_node.seq + 1]
    /\ UNCHANGED <<dbvars, uwsvars, authvars, sessionvars, readervars, treevars,
                   transfer, xml, label>>

NextProperties == node_set_properties \/ node_add_property \/ node_sort_properties

SpecProperties == InitProperties /\ [][NextProperties]_vars

----------------------------------------------------------------------------
(* model.py: Transfer.create_transfer *)

\* Node(uri) as create_transfer builds it: uri_to_path, lines 504-509,
\* raises InvalidURI for a URI without a path
NodeOfUri(uri) ==
    IF uri = <<>> THEN [raised |-> "InvalidURI", path |-> <<>>]
    ELSE [raised |-> "", path |-> uri_to_path(uri)]

\* what a create_transfer call gives: the class of the transfer built with
\* its fields, or the exception raised
Transfer(class, target, direction, keep_bytes) ==
    [raised |-> "", class |-> class, target |-> target, direction |-> direction,
     keep_bytes |-> keep_bytes]
TransferRaises(exception) ==
    [raised |-> exception, class |-> "", target |-> <<>>, direction |-> <<>>,
     keep_bytes |-> <<>>]

\* faulty variant: a keepBytes element that was present counts as true
truth_of_present(keep_bytes) == keep_bytes # <<>>

\* 'if keep_bytes:', line 951, of True, False, or the empty list fromroot
\* passes when there is no keepBytes element
truth_of(keep_bytes) == keep_bytes = << TRUE >>

\* create_transfer, lines 940-953; a direction name is one symbol
create_transfer(target, direction, keep_bytes) ==
    LET target_node == NodeOfUri(target)
        direction_node == NodeOfUri(direction)
    IN  IF direction \in { <<"pushToVoSpace">>, <<"pullFromVoSpace">> }
        THEN IF target_node.raised # "" THEN TransferRaises(target_node.raised)
             ELSE Transfer(IF direction = <<"pushToVoSpace">> THEN "PushToSpace"
                           ELSE "PullFromSpace",
                           target_node.path, direction, <<>>)
        ELSE IF direction \in { <<"pushFromVoSpace">>, <<"pullToVoSpace">> }
        THEN TransferRaises("NotImplementedError")
        ELSE IF target_node.raised # "" THEN TransferRaises(target_node.raised)
        ELSE IF direction_node.raised # "" THEN TransferRaises(direction_node.raised)
        ELSE IF truth_of(keep_bytes)
        THEN Transfer("Copy", target_node.path, direction_node.path, << TRUE >>)
        ELSE Transfer("Move", target_node.path, direction_node.path, << FALSE >>)

\* a create_transfer call with arguments as fromroot, lines 955-971, can
\* pass them: texts of the target and direction elements, empty included
InitTransfer ==
    /\ InitDatabase /\ nodes = {}
    /\ InitExecutor
    /\ InitPermits /\ InitSession /\ InitReaderIdle /\ InitTree
    /\ InitModel({"transfer"})
    /\ \E target \in { <<>>, <<"a">>, <<"/", "a", "/", "b", "/">> },
          direction \in { <<"pushToVoSpace">>, <<"pullFromVoSpace">>,
                          <<"pushFromVoSpace">>, <<"pullToVoSpace">>,
                          <<"pushtovospace">>, <<>>, <<"b">>, <<"/">>,
                          <<"/", "a", "/", "c">> },
          keep_bytes \in { <<>>, << TRUE >>, << FALSE >> } :
         transfer = [target |-> target, direction |-> direction,
                     keep_bytes |-> keep_bytes, outcome |-> <<>>]

create_transfer_call ==
    /\ transfer.outcome = <<>>
    /\ transfer' = [transfer EXCEPT
                      !.outcome = << create_transfer(transfer.target, transfer.direction,
                                                     transfer.keep_bytes) >>]
    /\ UNCHANGED <<dbvars, uwsvars, authvars, sessionvars, readervars, treevars,
                   props_node, xml, label>>

SpecTransfer == InitTransfer /\ [][create_transfer_call]_vars

----------------------------------------------------------------------------
(* model.py: Node.tostring and Node.fromstring *)

\* the classes of nodes with the node_type their constructors pass on
NodeClasses ==
    { "Node", "DataNode", "UnstructuredDataNode", "StructuredDataNode",
      "ContainerNode", "LinkNode" }
node_type_text(class) == "vos:" \o class

\* a node object: Python's True, False and None are written as str shows
\* them; target is the uri_target of a LinkNode, None otherwise
NodeObject(class, path, properties, target) ==
    [class |-> class, path |-> uri_to_path(path),
     node_type_text |-> node_type_text(class),
     properties |-> sort_properties(properties), target |-> target]

\* to_uri, lines 602-603, and the path urlparse finds in a URI; the scheme
\* and the authority are one symbol each
to_uri(path) == <<"vos:", "//", "icrar.org!vospace", "/">> \o path
urlparse_path(uri) ==
    IF Len(uri) >= 3 /\ SubSeq(uri, 1, 3) = <<"vos:", "//", "icrar.org!vospace">>
    THEN SubSeq(uri, 4, Len(uri))
    ELSE uri

\* str(prop.read_only).lower(), line 619
str_lower(value) ==
    CASE value = "True" -> "true" [] value = "False" -> "false" [] value = "None" -> "none"

\* the text of an element as the parser returns it: an element whose text
\* was set to None or to the empty string has no text
element_text(value) == IF value = "" THEN NULL ELSE value

\* toxml, lines 609-623, and the tostring of the classes: the attributes
\* and elements of the document written
tostring(node) ==
    [type |-> node.node_type_text,
     uri |-> to_uri(node.path),
     properties |-> [i \in 1..Len(node.properties) |->
                       [uri |-> node.properties[i].uri,
                        readOnly |-> str_lower(node.properties[i].read_only),
                        text |-> element_text(node.properties[i].value),
                        nil |-> node.properties[i].delete]],
     target |-> IF node.class = "LinkNode" THEN << element_text(node.target) >> ELSE <<>>]

\* build_node, lines 519-540, for one property element
build_property(element) ==
    IF element.nil
    THEN [uri |-> element.uri, value |-> NULL, read_only |-> "False", delete |-> TRUE]
    ELSE [uri |-> element.uri, value |-> element.text,
          read_only |-> IF element.readOnly = "true" THEN "True" ELSE "False",
          delete |-> FALSE]

\* fromstring, lines 562-574, with create_node, lines 545-560, and the
\* build_node of the classes
fromstring(string) ==
    IF string.type \notin { node_type_text(class) : class \in NodeClasses }
    THEN [raised |-> "InvalidURI", node |-> <<>>]
    ELSE IF string.type = "vos:LinkNode" /\ string.target = <<>>
    THEN [raised |-> "InvalidXML", node |-> <<>>]
    ELSE [raised |-> "",
          node |-> << [class |-> (CHOOSE class \in NodeClasses :
                                     node_type_text(class) = string.type),
                       path |-> uri_to_path(urlparse_path(string.uri)),
                       node_type_text |-> string.type,
                       properties |-> sort_properties(
                           [i \in 1..Len(string.properties) |->
                              build_property(string.properties[i])]),
                       target |-> IF string.type = "vos:LinkNode"
                                  THEN string.target[1] ELSE NULL] >>]

\* the nodes serialized: of every class, with up to two properties whose
\* value is a text, the empty text or None and whose read_only is True,
\* False, or None as build_node leaves it without a readOnly attribute
InitXml ==
    /\ InitDatabase /\ nodes = {}
    /\ InitExecutor
    /\ InitPermits /\ InitSession /\ InitReaderIdle /\ InitTree
    /\ InitModel({"xml"})
    /\ LET some == { [uri |-> uri, value |-> value, read_only |-> read_only,
                      delete |-> FALSE] :
                       uri \in { <<"a">>, <<"b">> }, value \in { "v", "", NULL },
                       read_only \in { "True", "False", "None" } }
                   \cup { [uri |-> <<"a">>, value |-> NULL, read_only |-> "False",
                           delete |-> TRUE] }
           lists == { <<>> } \cup { <<p>> : p \in some }
                    \cup { <<p, q>> : p \in some, q \in { r \in some : r.value = "v" } }
       IN  \E class \in NodeClasses, path \in { <<"a">>, <<"a", "/", "b">> },
              properties \in lists :
             xml = [node |-> << NodeObject(class, path, properties,
                                           IF class = "LinkNode" THEN "t" ELSE NULL) >>,
                    string |-> <<>>, parsed |-> <<>>]

\* a node is serialized and the result parsed
tostring_fromstring ==
    /\ xml.parsed = <<>>
    /\ xml' = [xml EXCEPT !.string = << tostring(xml.node[1]) >>,
                          !.parsed = << fromstring(tostring(xml.node[1])) >>]
    /\ UNCHANGED <<dbvars, uwsvars, authvars, sessionvars, readervars, treevars,
                   props_node, transfer, label>>

SpecXml == InitXml /\ [][tostring_fromstring]_vars

----------------------------------------------------------------------------
(* database.py: a path, its label, and the path of the node made of the row *)

MaxPathLen == 4

\* the paths converted: every string of up to MaxPathLen characters, and
\* '/a/b/c/'
LabelPaths ==
    UNION { [1..n -> {"a", "b", ".", "/"}] : n \in 0..MaxPathLen }
    \cup { <<"/", "a", "/", "b", "/", "c", "/">> }

InitLabel ==
    /\ InitDatabase /\ nodes = {}
    /\ InitExecutor
    /\ InitPermits /\ InitSession /\ InitReaderIdle /\ InitTree
    /\ InitModel({"label"})
    /\ \E path \in LabelPaths : label = [path |-> path, ltree |-> <<>>, back |-> <<>>]

\* path_to_ltree, lines 14-18, and for the label it gives the path of
\* _create_node, lines 45-46: replace('.', '/'), then Node(path)
path_to_ltree_call ==
    /\ label.ltree = <<>>
    /\ label' = [label EXCEPT
                   !.ltree = << path_to_ltree(label.path) >>,
                   !.back = IF path_to_ltree(label.path).ok
                            THEN << uri_to_path(replace(path_to_ltree(label.path).tree,
                                                        ".", "/")) >>
                            ELSE <<>>]
    /\ UNCHANGED <<dbvars, uwsvars, authvars, sessionvars, readervars, treevars,
                   props_node, transfer, xml>>

SpecLabel == InitLabel /\ [][path_to_ltree_call]_vars

----------------------------------------------------------------------------
(* database.py: the spaces 1 and 2 beside a third space *)

\* the table after the container a and the container a/b were inserted in
\* space 1 and in space 3, space 2 being empty
InitThreeSpaces ==
    /\ props = {}
    /\ pc = [p \in Procs |-> "idle"]
    /\ req = [p \in Procs |-> NoReq]
    /\ qrows = [p \in Procs |-> <<>>]
    /\ got = [p \in Procs |-> <<>>]
    /\ last = [proc |-> 0, op |-> "none", path |-> <<>>, space |-> 0, result |-> "",
               rows |-> 0, props |-> <<>>]
    /\ nops = 0
    /\ nodes = { NodeRow(NodeType_ContainerNode, path_to_ltree(path).tree, "u1", space, NULL, {}) :
                   path \in { S_a, S_a_b }, space \in { 1, 3 } }
    /\ InitExecutor
    /\ InitLib

SpecThreeSpaces == InitThreeSpaces /\ [][Next]_vars

----------------------------------------------------------------------------
(* Vocabulary of the properties *)

\* operations that have ended
Finished == nops - Cardinality({ p \in Procs : pc[p] # "idle" })

\* the labels of a path argument and of a stored path
PathLabels(path) == filter_none(split(path, "/"))
RowLabels(r) == split(r.path, ".")

IsPrefixOf(a, b) == Len(a) <= Len(b) /\ SubSeq(b, 1, Len(a)) = a

\* the rows of space s whose path has exactly the labels ls
RowsAt(ls, s) == { r \in nodes : r.space_id = s /\ RowLabels(r) = ls }

\* the rows of space s at or below the path with labels ls
RowsAtOrBelow(ls, s) == { r \in nodes : r.space_id = s /\ IsPrefixOf(ls, RowLabels(r)) }

\* request p has its locking read behind it and takes the step that decides it
Decides(p, op) ==
    /\ pc[p] = "lock"
    /\ qrows[p] = <<>>
    /\ req[p].op = op
    /\ pc'[p] # "lock"

\* request p takes the step that writes
Writes(p, op) ==
    /\ pc[p] = "write"
    /\ req[p].op = op
    /\ pc'[p] = "idle"

\* request p waits for a row that request q holds
WaitsFor(p, q) ==
    /\ pc[p] = "lock"
    /\ qrows[p] # <<>>
    /\ Head(qrows[p]) \in nodes
    /\ Head(qrows[p]) \in Range(got[q])

----------------------------------------------------------------------------
(* C1: every persistence operation run for space S reads, locks and returns *)
(* only rows of S: the rows the locking query of a request returns, and the *)
(* rows the request holds, are rows of the request's space.                 *)
C1_SpaceIsolation ==
    \A p \in Procs :
        pc[p] # "idle" =>
            \A r \in Range(got[p]) \cup Range(qrows[p]) : r.space_id = req[p].space

(* C2: in any interleaving of insert and update_properties requests no      *)
(* deadlock is reachable: no two requests each wait for a row lock the      *)
(* other holds.                                                             *)
C2_NoDeadlock ==
    ~ \E p, q \in Procs : p # q /\ WaitsFor(p, q) /\ WaitsFor(q, p)

(* C3: an insert whose path has a non-empty parent part, decided while no   *)
(* row for the parent path exists in its space, ends in                     *)
(* ContainerDoesNotExistError and adds no node row and no property row.     *)
C3_MissingParent ==
    [][ \A p \in Procs :
          ( /\ Decides(p, "insert")
            /\ Len(PathLabels(req[p].path)) > 1
            /\ RowsAt(but_last(PathLabels(req[p].path)), req[p].space) = {} )
          => /\ pc'[p] = "idle"
             /\ last'.result = "ContainerDoesNotExistError"
             /\ nodes' = nodes
             /\ props' = props ]_vars

(* C4: an insert of a root-level node (one segment) whose path has no row   *)
(* in the space, made by an administrator of the space, needs no parent row *)
(* and succeeds: the checks pass it on to the row INSERT unless the policy  *)
(* refuses it, and the INSERT adds its row.                                 *)
C4_RootInsert ==
    [][ \A p \in Procs :
          LET ls == PathLabels(req[p].path)
              admin == \E u \in users : /\ u.username = req[p].identity
                                         /\ u.space_name = req[p].space
                                         /\ u.admin
          IN  /\ ( Decides(p, "insert") /\ Len(ls) = 1 /\ admin
                   /\ RowsAt(ls, req[p].space) = {} )
                 => ( pc'[p] = "write" \/ last'.result = "PermissionDenied" )
              /\ ( Writes(p, "insert") /\ Len(ls) = 1
                   /\ RowsAt(ls, req[p].space) = {} /\ req[p].props = <<>> )
                 => ( last'.result = "ok"
                      /\ \E r \in nodes' : r.space_id = req[p].space
                                            /\ RowLabels(r) = ls ) ]_vars

(* C5 as stated, for paths below the root: there is at most one node row   *)
(* per (path, space), and an insert that has passed its locking read and   *)
(* ends while its path has a row in its space ends in DuplicateNodeError   *)
(* and adds no row.                                                        *)
UniquePathSpace ==
    \A r1, r2 \in nodes :
        (r1.path = r2.path /\ r1.space_id = r2.space_id) => r1 = r2

InsertEnds(p) ==
    /\ pc[p] \in {"lock", "write"}
    /\ qrows[p] = <<>>
    /\ req[p].op = "insert"
    /\ pc'[p] = "idle"

C5_Original ==
    /\ []UniquePathSpace
    /\ [][ \A p \in Procs :
             ( InsertEnds(p)
               /\ Len(PathLabels(req[p].path)) > 1
               /\ RowsAt(PathLabels(req[p].path), req[p].space) # {} )
             => /\ last'.result = "DuplicateNodeError"
                /\ nodes' = nodes
                /\ props' = props ]_vars

(* C5, amended: there is at most one node row per (path, space); an insert *)
(* whose path has a row in its space adds no node row and no property row  *)
(* at any of its steps and, when its checks and the hook let it reach the  *)
(* row INSERT, ends in DuplicateNodeError; an insert succeeds only when no *)
(* row of its path existed at its INSERT, and then adds exactly its row,   *)
(* so of two concurrent inserts of one path at most one succeeds.          *)
C5_Amended ==
    /\ []UniquePathSpace
    /\ [][ \A p \in Procs :
             LET own == RowsAt(PathLabels(req[p].path), req[p].space)
             IN  /\ ( req[p].op = "insert" /\ pc'[p] # pc[p] /\ own # {} )
                    => ( nodes' = nodes /\ props' = props )
                 /\ ( Writes(p, "insert") /\ own # {} )
                    => last'.result = "DuplicateNodeError"
                 /\ ( Writes(p, "insert") /\ last'.result = "ok" )
                    => /\ own = {}
                       /\ \E r \in nodes' :
                            /\ r.space_id = req[p].space
                            /\ RowLabels(r) = PathLabels(req[p].path)
                            /\ r.owner = req[p].identity
                            /\ nodes' = nodes \cup {r} ]_vars

\* an insert of a path that has a row has ended in DuplicateNodeError
C5_Witness ==
    /\ last.op = "insert"
    /\ last.result = "DuplicateNodeError"
    /\ RowsAt(PathLabels(last.path), last.space) # {}
    /\ Len(PathLabels(last.path)) > 1

(* C6: in insert and update_properties the permission hook is called     *)
(* after the locking read and before any write.  A request that is about   *)
(* to write has its locking read behind it and the hook has allowed it for *)
(* the rows it locked; only a request in that position writes; a request   *)
(* ends in PermissionDenied at the step that follows its locking read, and *)
(* that step changes no node row and no property row.                      *)
HookAllowed(p) ==
    IF req[p].op = "insert"
    THEN LET np == get_node_and_parent(got[p],
                       join(but_last(PathLabels(req[p].path)), "."))
         IN  permits(req[p].space, req[p].identity, "createNode",
                     resultset_to_node(np.parent), [path |-> req[p].path],
                     req[p].props) = "True"
    ELSE /\ got[p] # <<>>
         /\ permits(req[p].space, req[p].identity, "setNode", <<>>,
                    [ path |-> req[p].path, owner |-> got[p][1].owner,
                      group_write |-> got[p][1].groupwrite ],
                    req[p].props) = "True"

C6_HookBeforeWrite ==
    /\ [](\A p \in Procs : pc[p] = "write" => (qrows[p] = <<>> /\ HookAllowed(p)))
    /\ [][ /\ ( (nodes' # nodes \/ props' # props) /\ nops' = nops )
              => \E p \in Procs : pc[p] = "write" /\ pc'[p] = "idle"
           /\ \A p \in Procs :
                ( pc[p] # "idle" /\ pc'[p] = "idle"
                  /\ last'.result = "PermissionDenied" )
                => /\ pc[p] = "lock"
                   /\ qrows[p] = <<>>
                   /\ nodes' = nodes
                   /\ props' = props ]_vars

\* the setNode hook has refused an update_properties of a stored node
C6_Witness ==
    /\ last.op = "update_properties"
    /\ last.result = "PermissionDenied"
    /\ RowsAt(PathLabels(last.path), last.space) # {}

(* C7: what one update_properties call does to the property rows of its   *)
(* node, entry by entry for the entries idx of its list.  A stored         *)
(* read-only row keeps its row and value; an upsert of a stored            *)
(* non-read-only row with a different value replaces the value; a delete   *)
(* marker removes a stored non-read-only row; an upsert of a URI that is   *)
(* not stored inserts it.                                                  *)
PropertyEffects(p, idx) ==
    LET path_tree == path_to_ltree(req[p].path).tree
        Stored(uri) == { r \in props : /\ r.uri = uri
                                       /\ r.node_path = path_tree
                                       /\ r.space_id = req[p].space }
        After(uri) == { r \in props' : /\ r.uri = uri
                                       /\ r.node_path = path_tree
                                       /\ r.space_id = req[p].space }
    IN  /\ \A r \in props : r.read_only => r \in props'
        /\ \A i \in idx :
             LET e == req[p].props[i]
             IN  /\ ( ~ e.delete /\ Stored(e.uri) = {} )
                    => PropertyRow(e.uri, e.value, e.read_only, path_tree,
                                   req[p].space) \in props'
                 /\ ( ~ e.delete /\ \E r \in Stored(e.uri) :
                                       ~ r.read_only /\ r.value # e.value )
                    => After(e.uri) =
                         { [r EXCEPT !.value = e.value] : r \in Stored(e.uri) }
                 /\ ( e.delete /\ \E r \in Stored(e.uri) : ~ r.read_only )
                    => After(e.uri) = {}

NamedOnce(properties) ==
    { i \in 1..Len(properties) :
        \A j \in 1..Len(properties) : properties[j].uri = properties[i].uri => j = i }

C9_Registry ==
    /\ []( /\ key_error = FALSE
           /\ \A t \in TaskIds :
                /\ t \in registered <=> tasks[t].state \in {"running", "except", "done"}
                /\ Cardinality({ e \in job_tasks : e.task = t }) <= 1
                /\ \A e \in job_tasks : e.task = t => e.job = tasks[t].job )
    /\ [][ \A t \in TaskIds :
             /\ ( t \in registered /\ t \notin registered' )
                => ( tasks[t].state = "done" /\ tasks'[t].state = "closed" )
             /\ ( t \notin registered /\ t \in registered' )
                => ( tasks[t].state = "none" /\ tasks'[t].state = "running" )
             /\ ( tasks[t].state = "done" /\ tasks'[t].state = "closed" )
                => ( t \in registered /\ t \notin registered' ) ]_vars

\* one task has been removed after its body raised, while another task,
\* whose body returned and whose callback has yet to run, is registered
C9_Witness ==
    \E t, u \in TaskIds :
        /\ tasks[t].state = "closed" /\ tasks[t].raised = "Exception"
        /\ tasks[u].state = "done" /\ tasks[u].raised = ""
        /\ registered = {u}

(* C10: when a job body raises a domain error the executor catches it: the *)
(* handler sets the job's phase to Error (4) and the job's error to the    *)
(* error's message and changes no other job, the task finishes without an  *)
(* exception, and it is then removed from the registry.                    *)
C10_DomainError ==
    /\ [][ \A t \in TaskIds :
             ( tasks[t].state = "except" /\ tasks'[t].state # "except" )
             => /\ tasks[t].job \in DOMAIN uws_jobs
                /\ uws_jobs'[tasks[t].job] =
                       UWSJobRow(UWSPhase_Error, tasks[t].error)
                /\ tasks[t].error \in ErrorMessages
                /\ \A j \in DOMAIN uws_jobs :
                     j # tasks[t].job => uws_jobs'[j] = uws_jobs[j]
                /\ tasks'[t].state = "done"
                /\ tasks'[t].exc = ""
                /\ t \in registered' ]_vars
    /\ [](\A t \in TaskIds :
            tasks[t].raised = "VOSpaceError"
            => ( tasks[t].exc = "" /\ tasks[t].state \in {"except", "done", "closed"} ))
    /\ \A t \in TaskIds :
         (tasks[t].raised = "VOSpaceError")
         ~> (tasks[t].state = "closed" /\ t \notin registered)

\* a task whose body raised a domain error with message m2 is removed, and
\* its job is in phase Error with that message
C10_Witness ==
    \E t \in TaskIds :
        /\ tasks[t].raised = "VOSpaceError"
        /\ tasks[t].error = "m2"
        /\ tasks[t].state = "closed"
        /\ t \notin registered
        /\ uws_jobs[tasks[t].job] = UWSJobRow(UWSPhase_Error, "m2")


(* C11: when a job body fails with anything other than a domain error the *)
(* executor writes nothing to the job record: the step of the failure      *)
(* leaves table uws_jobs as it is, the handler of _run never runs for that *)
(* task, the task finishes with the exception, and it is then removed from *)
(* the registry.                                                           *)
C11_OtherFailure ==
    /\ [][ \A t \in TaskIds :
             ( tasks[t].raised = "" /\ tasks'[t].raised = "Exception" )
             => /\ uws_jobs' = uws_jobs
                /\ tasks'[t].state = "done"
                /\ tasks'[t].exc = "Exception"
                /\ t \in registered' ]_vars
    /\ [](\A t \in TaskIds :
            tasks[t].raised = "Exception"
            => ( tasks[t].state \in {"done", "closed"} /\ tasks[t].exc = "Exception" ))
    /\ \A t \in TaskIds :
         (tasks[t].raised = "Exception")
         ~> (tasks[t].state = "closed" /\ t \notin registered)

\* a task whose body recorded Executing and then failed is removed, and its
\* job is still in phase Executing with no error
C11_Witness ==
    \E t \in TaskIds :
        /\ tasks[t].raised = "Exception"
        /\ tasks[t].state = "closed"
        /\ t \notin registered
        /\ uws_jobs[tasks[t].job] = UWSJobRow(UWSPhase_Executing, NULL)


(* C12: close returns only in a state where the registry is empty, where   *)
(* no task is left that has not finished and been removed; no step of      *)
(* close changes the registry or a task; when every job body completes or  *)
(* fails (and scheduling ends, as it does within MaxTasks) a close that is *)
(* waiting returns.                                                        *)
C12_Drain ==
    /\ [][ /\ ( closing.pc # "returned" /\ closing'.pc = "returned" )
              => /\ job_tasks = {}
                 /\ job_tasks' = {}
                 /\ \A t \in TaskIds : tasks[t].state \in {"none", "closed"}
           /\ closing' # closing
              => ( job_tasks' = job_tasks /\ tasks' = tasks /\ uws_jobs' = uws_jobs ) ]_vars
    /\ (closing.pc = "sleeping") ~> (closing.pc = "returned")

\* close has slept at least once and has returned after the removal of a
\* task whose body failed and of a task whose body returned
C12_Witness ==
    /\ closing = [pc |-> "returned", slept |-> TRUE]
    /\ \E t, u \in TaskIds :
         /\ tasks[t].state = "closed" /\ tasks[t].raised = "Exception"
         /\ tasks[u].state = "closed" /\ tasks[u].raised = ""


\* Python's str.upper on the letters of the phase names
LowerCase == <<"a","b","c","d","e","f","g","h","i","j","k","l","m",
               "n","o","p","q","r","s","t","u","v","w","x","y","z">>
UpperCase == <<"A","B","C","D","E","F","G","H","I","J","K","L","M",
               "N","O","P","Q","R","S","T","U","V","W","X","Y","Z">>
upper(str) ==
    [ i \in 1..Len(str) |->
        IF \E k \in 1..26 : LowerCase[k] = str[i]
        THEN UpperCase[CHOOSE k \in 1..26 : LowerCase[k] = str[i]]
        ELSE str[i] ]

\* the phase the claim expects get_uws_job to return for a job
ExpectedPhase(job_id) ==
    IF phase_calls[job_id] = <<>> THEN UWSPhase_Pending ELSE phase_calls[job_id][1]

(* C13: a job is created with phase Pending (0); at any time get_uws_job   *)
(* returns, for a job, the phase of the last set_uws_phase or              *)
(* set_uws_extras_and_phase call made for it (Pending before any call); a  *)
(* call for one job leaves the phase of every other job as it was; and     *)
(* PhaseLookup renders a phase as the upper-case name of its field, 2 as   *)
(* "EXECUTING".                                                            *)
C13_JobPhase ==
    /\ [](\A job_id \in DOMAIN uws_jobs :
            get_uws_job(uws_jobs, job_id).result[1].phase = ExpectedPhase(job_id))
    /\ [][ /\ Len(uws_jobs') # Len(uws_jobs)
              => /\ Len(uws_jobs') = Len(uws_jobs) + 1
                 /\ get_uws_job(uws_jobs', Len(uws_jobs')).result[1].phase = 0
                 /\ \A j \in DOMAIN uws_jobs : uws_jobs'[j] = uws_jobs[j]
           /\ \A j \in DOMAIN uws_jobs :
                phase_calls'[j] = phase_calls[j]
                => get_uws_job(uws_jobs', j).result[1].phase
                     = get_uws_job(uws_jobs, j).result[1].phase
           /\ ( fetched' # fetched /\ fetched'.job_id \in DOMAIN uws_jobs )
              => /\ fetched'.raised = ""
                 /\ fetched'.result[1].phase = ExpectedPhase(fetched'.job_id)
                 /\ PhaseLookup[fetched'.result[1].phase]
                      = upper(UWS_Phase[fetched'.result[1].phase]) ]_vars
    /\ [](/\ PhaseLookup[UWSPhase_Executing] = <<"E","X","E","C","U","T","I","N","G">>
          /\ UWSPhase_Executing = 2
          /\ \A i \in 0..9 : PhaseLookup[i] = upper(UWS_Phase[i]))

\* get_uws_job has returned EXECUTING for job 1 after a call of
\* set_uws_extras_and_phase that followed a set_uws_phase call with an
\* error, while job 2 is at another phase
C13_Witness ==
    /\ Len(uws_jobs) = 2
    /\ fetched.job_id = 1
    /\ fetched.result = <<uws_jobs[1]>>
    /\ uws_jobs[1] = [UWSJobRow(UWSPhase_Executing, "m1") EXCEPT !.extras = "x1"]
    /\ PhaseLookup[fetched.result[1].phase] = <<"E","X","E","C","U","T","I","N","G">>
    /\ uws_jobs[2].phase = UWSPhase_Completed


\* vocabulary of the claims on permits
Called == permits_result # "none"
Perm == permits_call.permission
Ctx == permits_call.context
HasUser == permits_call.found # {}
User == CHOOSE u \in permits_call.found : TRUE
Protected == \E i \in DOMAIN Ctx.properties : Ctx.properties[i].uri \in PROTECTED_URI
SharesGroup(group_list) == HasUser /\ (User.groupwrite \cap group_list # {})

\* the case of claim C14: setNode without a protected property, or deleteNode
WriteCase ==
    \/ Perm = "deleteNode"
    \/ Perm = "setNode" /\ ~ Protected

WriteRule ==
    \/ Ctx.node.owner = permits_call.identity
    \/ SharesGroup(Ctx.node.group_write)

ProtectedCase == Perm \in {"createNode", "setNode"} /\ Protected

ParentIsRoot ==
    \/ Ctx.parent = <<>>
    \/ Ctx.parent # <<>> /\ Ctx.parent[1].path = uri_to_path(RootUri)

(* C16: createNode without a protected property is allowed to an admin     *)
(* when the parent is the root of the space, whoever owns the parent and   *)
(* whatever its write groups.                                              *)
C16_AdminRoot ==
    ( /\ Called /\ Perm = "createNode" /\ ~ Protected
      /\ HasUser /\ User.admin
      /\ ParentIsRoot )
    => permits_result = "True"

\* permissions outside the ten the policy names
UnknownCase == Perm \notin (NodePermissions \cup JobPermissions)
JobCase == Perm \in JobPermissions

(* C17, as stated: permits returns False for every permission name that is *)
(* not one of the ten, and for runJob and abortJob returns True exactly     *)
(* when the job's owner is the identity.                                   *)
C17_Original ==
    /\ (Called /\ UnknownCase) => permits_result = "False"
    /\ (Called /\ JobCase)
       => (permits_result = "True" <=> Ctx.job.owner = permits_call.identity)

(* C17, amended: for an identity with a users row in the space, permits    *)
(* returns False for every permission name that is not one of the ten, and *)
(* for runJob and abortJob True when the job's owner is the identity and   *)
(* False otherwise; for an identity without a row it raises HTTPForbidden  *)
(* whatever the permission; it returns True only under one of the ten      *)
(* names.                                                                  *)
C17_Amended ==
    /\ (Called /\ HasUser /\ UnknownCase) => permits_result = "False"
    /\ (Called /\ HasUser /\ JobCase)
       => permits_result = Bool(Ctx.job.owner = permits_call.identity)
    /\ (Called /\ ~ HasUser) => permits_result = "HTTPForbidden"
    /\ (Called /\ permits_result = "True")
       => Perm \in (NodePermissions \cup JobPermissions)

\* abortJob is denied to an admin that shares the write group of the
\* job's target and does not own the job
C17_Witness ==
    /\ Called /\ Perm = "abortJob" /\ HasUser
    /\ User.admin /\ SharesGroup(Ctx.job.transfer.target.group_write)
    /\ Ctx.job.owner # permits_call.identity
    /\ Ctx.job.transfer.target.owner = permits_call.identity
    /\ permits_result = "False"


\* the header carries Basic credentials that verify against the stored row
\* of user u in the space
Verifies(header, u, space_name) ==
    \E row \in users :
        /\ row.username = u /\ row.space_name = space_name
        /\ \E secret \in { <<"p">>, <<"q">>, <<"x">>, <<"p", ":", "q">> } :
            /\ header = BasicHeader(<<u, ":">> \o secret)
            /\ row.password.checksum = <<"pbkdf2-sha256", row.password.salt, secret>>

(* C18: a session for user u is remembered in a space only if the last     *)
(* request there that was a logout or an accepted login was a login whose  *)
(* Basic credentials verify against u's row in that space; a login is      *)
(* accepted only with such credentials; a login whose header is missing or *)
(* unparseable, or names an unknown user or a wrong password, is answered  *)
(* 403 and leaves every remembered session as it was; logout clears the    *)
(* session of its space and no other.                                      *)
C18_Session ==
    /\ [](\A sp \in Spaces :
            remembered[sp] # ""
            => /\ session_change[sp].op = "login"
               /\ Verifies(session_change[sp].header, remembered[sp], sp))
    /\ [][ auth_response'.seq = auth_response.seq + 1
           => LET r == auth_response'
                  good == \E u \in Identities : Verifies(r.header, u, r.space)
              IN  /\ ( r.op = "login" /\ ~ good )
                      => ( r.status = 403 /\ remembered' = remembered )
                  /\ ( r.op = "login" /\ good )
                      => /\ r.status = 200
                         /\ Verifies(r.header, remembered'[r.space], r.space)
                  /\ r.op = "logout"
                      => ( r.status = 200 /\ remembered'[r.space] = "" )
                  /\ \A sp \in Spaces \ {r.space} : remembered'[sp] = remembered[sp] ]_vars

\* in space 2 u1 logged in, then a login with u1's password of space 1 was
\* refused, and u1 is still remembered there
C18_Witness ==
    /\ remembered[2] = "u1"
    /\ auth_response.op = "login" /\ auth_response.space = 2
    /\ auth_response.header = BasicHeader(<<"u1", ":", "p">>)
    /\ auth_response.status = 403
    /\ session_change[2].seq < auth_response.seq


\* vocabulary of the claim on ControlledReader
RECURSIVE Flatten(_)
Flatten(seqs) == IF seqs = <<>> THEN <<>> ELSE Head(seqs) \o Flatten(Tail(seqs))

Wanted == IF reader.content_length > 0 THEN reader.content_length ELSE 0
EnoughSource == Len(reader.source) >= reader.content_length

(* C19: over a source that holds at least content_length bytes, every      *)
(* chunk yielded has between 1 and DEFAULT_BUFFER_SIZE bytes, the chunks   *)
(* are the bytes of the source in order, the count of bytes read is the    *)
(* number yielded and never exceeds content_length (0 for a content_length *)
(* of 0 or less); end-of-stream is signalled only after exactly            *)
(* content_length bytes, at the first read after them, and then on every   *)
(* further read; nothing else is ever raised.                              *)
C19_Reader ==
    /\ [](EnoughSource
          => /\ \A i \in DOMAIN reader.chunks :
                  Len(reader.chunks[i]) \in 1..DEFAULT_BUFFER_SIZE
             /\ Flatten(reader.chunks) = SubSeq(reader.source, 1, reader.bytes_read)
             /\ reader.bytes_read <= Wanted
             /\ reader.last \in {"", "chunk", "StopAsyncIteration"}
             /\ reader.last = "StopAsyncIteration"
                => Len(Flatten(reader.chunks)) = Wanted
             /\ reader.last = "chunk"
                => reader.reads = Len(reader.chunks)
             /\ reader.content_length <= 0 => reader.chunks = <<>>)
    /\ [][ ( EnoughSource /\ reader' # reader )
           => /\ reader.last = "StopAsyncIteration"
                 => ( reader'.last = "StopAsyncIteration" /\ reader'.chunks = reader.chunks )
              /\ reader.bytes_read = Wanted => reader'.last = "StopAsyncIteration"
              /\ reader.bytes_read < Wanted => reader'.last = "chunk" ]_vars

\* one byte more than a buffer, of a source that holds still more, was
\* yielded as a full chunk and a chunk of one byte, and end-of-stream was
\* signalled twice
C19_Witness ==
    /\ reader.content_length = DEFAULT_BUFFER_SIZE + 1
    /\ Len(reader.source) = reader.content_length + 1
    /\ Len(reader.chunks) = 2
    /\ Len(reader.chunks[1]) = DEFAULT_BUFFER_SIZE
    /\ reader.chunks[2] = <<DEFAULT_BUFFER_SIZE + 1>>
    /\ reader.last = "StopAsyncIteration"
    /\ reader.reads = 4

\* vocabulary of the claim on insert_node_into_tree: paths by segments
Segs(path) == split(path, "/")
PathOf(segs) == join(segs, "/")
BelowRoot(path) ==
    /\ Len(Segs(path)) > Len(Segs(TreeRoot))
    /\ SubSeq(Segs(path), 1, Len(Segs(TreeRoot))) = Segs(TreeRoot)
\* the paths between the root and the node, the node's parent included
Between(path) ==
    { PathOf(SubSeq(Segs(path), 1, k)) : k \in (Len(Segs(TreeRoot)) + 1)..(Len(Segs(path)) - 1) }
\* the nodes below a node, each by its path and class, and the node found
\* from a node by the keys of a path
Entry(node) == [path |-> node.path, node_type |-> node.node_type]
RECURSIVE Stored(_)
Stored(node) == UNION { { Entry(e.node) } \cup Stored(e.node) : e \in node._nodes }
RECURSIVE Walk(_, _)
Walk(node, keys) ==
    IF keys = <<>> THEN { node }
    ELSE UNION { Walk(e.node, Tail(keys)) : e \in { c \in node._nodes : c.key = Head(keys) } }
At(root, path) ==
    Walk(root, SubSeq(Segs(path), Len(Segs(root.path)) + 1, Len(Segs(path))))
IsContainer(t, path) ==
    \E e \in t : e.path = path /\ e.node_type = NodeType_ContainerNode
IsChild(t, path) == \E e \in t : e.path = path
\* a segment is missing while segments remain, all before it being containers
MissingSegment(t, path) ==
    /\ BelowRoot(path)
    /\ \E q \in Between(path) :
        /\ ~ IsChild(t, q)
        /\ \A r \in Between(path) : Len(r) < Len(q) => IsContainer(t, r)

(* C20: a call of insert_node_into_tree that attaches the node found every *)
(* segment between the root and the node's parent as a container child;    *)
(* when a segment is missing while segments remain the call raises         *)
(* InvalidArgument 'no path to' and the tree is as before, no container    *)
(* made; a call that raises leaves the tree as before; on success the one  *)
(* entry of the node's name in the container at the node's parent path is  *)
(* set to the node, and no other entry of any container changes.           *)
C20_InsertIntoTree ==
    [][ ( tree_call'.seq = tree_call.seq + 1 /\ tree_call'.op = "insert_node_into_tree" )
        => LET node == tree_call'.nodes[1]
               raised == tree_call'.raised
               before == Stored(tree)
               after == Stored(tree')
           IN  /\ raised = ""
                  => /\ BelowRoot(node.path)
                     /\ \A q \in Between(node.path) : IsContainer(before, q)
                     /\ At(tree', node.path) = { node }
                     /\ os_path_dirname(node.path) = TreeRoot
                        \/ IsContainer(after, os_path_dirname(node.path))
                     /\ after = { e \in before : /\ e.path # node.path
                                                 /\ ~ startswith(e.path, node.path \o <<"/">>) }
                                \cup { Entry(node) } \cup Stored(node)
               /\ MissingSegment(before, node.path)
                  => ( raised = "InvalidArgument: no path to" /\ tree' = tree )
               /\ raised # "" => tree' = tree ]_vars

\* with a/b and a/b/c in the tree, the insertion of a/x/y was refused with
\* 'no path to'
C20_Witness ==
    /\ tree_call.seq = 3
    /\ tree_call.op = "insert_node_into_tree"
    /\ tree_call.nodes[1].path = <<"a", "/", "x", "/", "y">>
    /\ tree_call.raised = "InvalidArgument: no path to"
    /\ IsContainer(Stored(tree), <<"a", "/", "b">>)
    /\ IsChild(Stored(tree), <<"a", "/", "b", "/", "c">>)
    /\ Cardinality(Stored(tree)) = 2

\* a child is already stored where the call would put the node: at the
\* node's path for insert_node_into_tree of the root, under the node's name
\* in the container called for add_node
Occupied(t, op, target, node) ==
    IF op = "insert_node_into_tree"
    THEN BelowRoot(node.path) /\ At(t, node.path) # {}
    ELSE \E holder \in Walk(t, target) :
            /\ holder.path = os_path_dirname(node.path)
            /\ Walk(holder, << os_path_basename(node.path) >>) # {}
\* what is stored there
Occupant(t, op, target, node) ==
    IF op = "insert_node_into_tree"
    THEN At(t, node.path)
    ELSE Walk(t, target \o << os_path_basename(node.path) >>)

(* C21: when a child is already stored where a call of insert_node_into_tree *)
(* or add_node would put its node, the call with overwrite false raises      *)
(* InvalidArgument 'duplicate node' and leaves the tree as it was, and the   *)
(* call with overwrite true succeeds and what is stored there afterwards is  *)
(* the new node alone, the old child and the children it held being gone;    *)
(* false is the default of insert_node_into_tree and true that of add_node.  *)
C21_Overwrite ==
    [][ ( /\ tree_call'.seq = tree_call.seq + 1
          /\ tree_call'.op \in {"insert_node_into_tree", "add_node"}
          /\ Occupied(tree, tree_call'.op, tree_call'.target, tree_call'.nodes[1]) )
        => IF tree_call'.overwrite
           THEN /\ tree_call'.raised = ""
                /\ Occupant(tree', tree_call'.op, tree_call'.target, tree_call'.nodes[1])
                     = { tree_call'.nodes[1] }
           ELSE /\ tree_call'.raised = "InvalidArgument: duplicate node"
                /\ tree' = tree ]_vars

\* the data node a/b was offered to insert_node_into_tree without overwrite
\* while the container a/b with its child a/b/c was stored there: the call
\* raised and the container is still there
C21_Witness ==
    /\ tree_call.op = "insert_node_into_tree"
    /\ ~ tree_call.overwrite
    /\ tree_call.raised = "InvalidArgument: duplicate node"
    /\ Entry(tree_call.nodes[1]) = [path |-> <<"a", "/", "b">>, node_type |-> NodeType_DataNode]
    /\ Stored(tree) = { [path |-> <<"a", "/", "b">>, node_type |-> NodeType_ContainerNode],
                        [path |-> <<"a", "/", "b", "/", "c">>, node_type |-> NodeType_DataNode] }

\* every child a container stores, at any depth, has the container's path
\* as dirname and is stored under its own name
RECURSIVE ChildrenInPlace(_)
ChildrenInPlace(node) ==
    \A e \in node._nodes :
        /\ os_path_dirname(e.node.path) = node.path
        /\ e.key = os_path_basename(e.node.path)
        /\ ChildrenInPlace(e.node)

(* C22: after any sequence of add_node, nodes-setter and                    *)
(* insert_node_into_tree calls, raising or not, every child stored in a     *)
(* container has the container's path as dirname and is stored under its    *)
(* own name; add_node with a child whose dirname differs from the path of   *)
(* the container raises InvalidArgument and leaves the children as before.  *)
C22_ChildrenInPlace ==
    /\ [] ChildrenInPlace(tree)
    /\ [][ ( /\ tree_call'.seq = tree_call.seq + 1
             /\ tree_call'.op = "add_node"
             /\ \E holder \in Walk(tree, tree_call'.target) :
                    os_path_dirname(tree_call'.nodes[1].path) # holder.path )
           => /\ tree_call'.raised = "InvalidArgument: is not a parent of"
              /\ tree' = tree ]_vars

\* add_node of the root refused a/b/c, whose dirname is a/b, as the third
\* call, the root holding the container a/b and in it a/b/c
C22_Witness ==
    /\ tree_call.seq = 3
    /\ tree_call.op = "add_node"
    /\ tree_call.target = <<>>
    /\ tree_call.nodes[1].path = <<"a", "/", "b", "/", "c">>
    /\ tree_call.raised = "InvalidArgument: is not a parent of"
    /\ Cardinality(Stored(tree)) = 2
    /\ IsChild(Stored(tree), <<"a", "/", "b", "/", "c">>)

\* a child that is not a container is stored at a path between the root
\* and the node
ThroughLeaf(t, path) ==
    /\ BelowRoot(path)
    /\ \E q \in Between(path) :
        /\ At(t, q) # {}
        /\ \A n \in At(t, q) : n.node_type # NodeType_ContainerNode

(* C30: insert_node_into_tree of a node whose path passes through a stored *)
(* child that is not a container (a data node or a link node) raises       *)
(* InvalidArgument whatever overwrite is, and the whole tree is as before: *)
(* the child is neither replaced nor given children.                       *)
C30_ThroughLeaf ==
    [][ ( /\ tree_call'.seq = tree_call.seq + 1
          /\ tree_call'.op = "insert_node_into_tree"
          /\ ThroughLeaf(tree, tree_call'.nodes[1].path) )
        => /\ tree_call'.raised = ( IF tree_call'.overwrite
                                    THEN "InvalidArgument: is not a parent of"
                                    ELSE "InvalidArgument: duplicate node" )
           /\ tree' = tree ]_vars

\* a/b/c was offered with overwrite while the link node a/b was the only
\* child stored: the call raised and the link node is still the only child
C30_Witness ==
    /\ tree_call.op = "insert_node_into_tree"
    /\ tree_call.overwrite
    /\ tree_call.nodes[1].path = <<"a", "/", "b", "/", "c">>
    /\ tree_call.raised = "InvalidArgument: is not a parent of"
    /\ At(tree, <<"a", "/", "b">>) = { TreeNode(<<"a", "/", "b">>, NodeType_LinkNode) }
    /\ Cardinality(Stored(tree)) = 1

\* the URIs of the property lists in ascending order of their strings, and
\* a list whose URIs never descend
UriRank(uri) ==
    CASE uri = <<"a">> -> 1 [] uri = <<"a", "b">> -> 2 [] uri = <<"b">> -> 3
Ascending(properties) ==
    \A i, j \in 1..Len(properties) :
        i < j => UriRank(properties[i].uri) <= UriRank(properties[j].uri)

(* C23, as stated: after the constructor with a property list, after       *)
(* set_properties with a list, and after sort_properties, the node's       *)
(* property list is sorted ascending by URI string.                        *)
C23_Original ==
    props_node.op \in { "__init__ list", "set_properties list",
                        "set_properties list sort", "sort_properties" }
    => Ascending(props_node.properties)

\* two lists hold the same properties, each as often
SameProperties(l1, l2) ==
    /\ Len(l1) = Len(l2)
    /\ \A p \in Range(l1) \cup Range(l2) :
         Cardinality({ i \in 1..Len(l1) : l1[i] = p })
         = Cardinality({ i \in 1..Len(l2) : l2[i] = p })

(* C23, amended: after the constructor with a property list, after         *)
(* set_properties with a list and sort true, after add_property with sort  *)
(* true and after sort_properties, the node's property list is sorted      *)
(* ascending by URI string, and after the first two it holds the           *)
(* properties given, each as often; set_properties with a list and sort    *)
(* false, its default, leaves the list in the order given, sorted or not.  *)
C23_Amended ==
    /\ props_node.op \in { "__init__ list", "set_properties list sort",
                           "add_property sort", "sort_properties" }
       => Ascending(props_node.properties)
    /\ props_node.op \in { "__init__ list", "set_properties list sort" }
       => SameProperties(props_node.properties, props_node.given)
    /\ props_node.op = "set_properties list"
       => props_node.properties = props_node.given

\* set_properties without sort was given b before a and the node holds b
\* before a
C23_Witness ==
    /\ props_node.op = "set_properties list"
    /\ props_node.seq = 2
    /\ Len(props_node.properties) = 2
    /\ props_node.properties[1].uri = <<"b">>
    /\ props_node.properties[2].uri = <<"a">>

\* the outcome of the create_transfer call made
TransferMade == transfer.outcome # <<>>
Outcome == transfer.outcome[1]
NamedDirections ==
    { <<"pushToVoSpace">>, <<"pullFromVoSpace">>, <<"pushFromVoSpace">>,
      <<"pullToVoSpace">> }
\* the outcome the four direction names have, given a target with a path
NamedOutcome ==
    /\ transfer.direction = <<"pushToVoSpace">>
       => ( Outcome.raised = "" /\ Outcome.class = "PushToSpace" )
    /\ transfer.direction = <<"pullFromVoSpace">>
       => ( Outcome.raised = "" /\ Outcome.class = "PullFromSpace" )
    /\ transfer.direction \in { <<"pushFromVoSpace">>, <<"pullToVoSpace">> }
       => Outcome.raised = "NotImplementedError"
CopyOrMove ==
    /\ Outcome.raised = ""
    /\ Outcome.class = ( IF transfer.keep_bytes = << TRUE >> THEN "Copy" ELSE "Move" )

(* C24, as stated, for a target that has a path: 'pushToVoSpace' gives a   *)
(* PushToSpace and 'pullFromVoSpace' a PullFromSpace whatever keep_bytes   *)
(* is; 'pushFromVoSpace' and 'pullToVoSpace' always fail; any other        *)
(* direction gives Copy when keep_bytes is true and Move when it is false  *)
(* or absent.                                                              *)
C24_Original ==
    ( TransferMade /\ transfer.target # <<>> )
    => /\ NamedOutcome
       /\ transfer.direction \notin NamedDirections => CopyOrMove

(* C24, amended: for a target that has a path, 'pushToVoSpace' gives a     *)
(* PushToSpace and 'pullFromVoSpace' a PullFromSpace whatever keep_bytes   *)
(* is; 'pushFromVoSpace' and 'pullToVoSpace' always fail, whatever the     *)
(* target is; any other direction that has a path is taken as a second     *)
(* node path and gives Copy when keep_bytes is true and Move when it is    *)
(* false or absent, the transfer holding the normalized paths of target    *)
(* and direction; a direction without a path, and for all but the two      *)
(* failing names a target without a path, fails with InvalidURI.           *)
C24_Amended ==
    TransferMade
    => /\ transfer.direction \in { <<"pushFromVoSpace">>, <<"pullToVoSpace">> }
          => Outcome.raised = "NotImplementedError"
       /\ ( /\ transfer.direction \notin { <<"pushFromVoSpace">>, <<"pullToVoSpace">> }
            /\ transfer.target = <<>> )
          => Outcome.raised = "InvalidURI"
       /\ transfer.target # <<>>
          => /\ NamedOutcome
             /\ ( transfer.direction \notin NamedDirections /\ transfer.direction # <<>> )
                => /\ CopyOrMove
                   /\ Outcome.target = join(filter_none(split(transfer.target, "/")), "/")
                   /\ Outcome.direction
                        = join(filter_none(split(transfer.direction, "/")), "/")
             /\ transfer.direction = <<>> => Outcome.raised = "InvalidURI"

\* a direction that is no name, with keepBytes false, gave a Move
C24_Witness ==
    /\ TransferMade
    /\ transfer.target = <<"a">>
    /\ transfer.direction = <<"/", "a", "/", "c">>
    /\ transfer.keep_bytes = << FALSE >>
    /\ Outcome.class = "Move"
    /\ Outcome.direction = <<"a", "/", "c">>

(* C25: for every node of every class (Node, DataNode,                     *)
(* UnstructuredDataNode, StructuredDataNode, ContainerNode, LinkNode),     *)
(* parsing the node's serialized form gives a node of the same class with  *)
(* the same path, the same type tag and the same property list sorted by   *)
(* URI: per property the same URI, value and read-only flag, a delete      *)
(* marker staying a delete marker.                                         *)
C25_RoundTrip ==
    xml.parsed # <<>>
    => /\ xml.parsed[1].raised = ""
       /\ xml.parsed[1].node[1].class = xml.node[1].class
       /\ xml.parsed[1].node[1].path = xml.node[1].path
       /\ xml.parsed[1].node[1].node_type_text = xml.node[1].node_type_text
       /\ xml.parsed[1].node[1].properties = sort_properties(xml.node[1].properties)

\* a normalized node path, as Node.path is: segments that are not empty
\* and neither '.' nor '..', with one '/' between them
Normalized(path) ==
    /\ path # <<>>
    /\ \A seg \in Range(split(path, "/")) : seg \notin { <<>>, <<".">>, <<".", ".">> }
\* the segments of a path that are not empty, by position
Segments(path) ==
    LET cuts == { 0, Len(path) + 1 } \cup { i \in 1..Len(path) : path[i] = "/" }
    IN  { <<i, j>> \in cuts \X cuts :
            /\ i + 1 < j
            /\ \A k \in (i + 1)..(j - 1) : path[k] # "/" }

(* C29: the label path_to_ltree gives for a normalized node path, read     *)
(* back with '.' replaced by '/', is the same path, and no other           *)
(* normalized path has the same label; path_to_ltree drops empty segments  *)
(* ('/a/b/c/' gives 'a.b.c') and fails with InvalidURI when no segment     *)
(* remains.                                                                *)
C29_Label ==
    label.ltree # <<>>
    => /\ Normalized(label.path)
          => /\ label.ltree[1].ok
             /\ label.back = << label.path >>
             /\ \A other \in LabelPaths :
                  ( Normalized(other) /\ other # label.path )
                  => path_to_ltree(other).tree # label.ltree[1].tree
       /\ label.ltree[1].ok <=> Segments(label.path) # {}
       /\ label.path = <<"/", "a", "/", "b", "/", "c", "/">>
          => label.ltree[1].tree = <<"a", ".", "b", ".", "c">>

(* C28: a set_uws_phase call sets the stored error of the job to the      *)
(* error passed, absent when none is passed, so that a message recorded    *)
(* earlier is cleared; a set_uws_extras_and_phase call sets phase and       *)
(* extras and leaves the stored error as it was; neither changes job_info  *)
(* or destruction of the job, nor any other row; for a job id that does    *)
(* not exist neither creates a row nor changes one, and nothing is raised. *)
C28_PhaseUpdates ==
    [][ job_call' # job_call
        => /\ Len(uws_jobs') = Len(uws_jobs)
           /\ \A k \in DOMAIN uws_jobs :
                k # job_call'.job_id => uws_jobs'[k] = uws_jobs[k]
           /\ job_call'.job_id \in DOMAIN uws_jobs
              => /\ uws_jobs'[job_call'.job_id].job_info
                      = uws_jobs[job_call'.job_id].job_info
                 /\ uws_jobs'[job_call'.job_id].destruction
                      = uws_jobs[job_call'.job_id].destruction
                 /\ uws_jobs'[job_call'.job_id].phase = job_call'.phase
                 /\ job_call'.fn = "set_uws_phase"
                    => /\ uws_jobs'[job_call'.job_id].error = job_call'.error
                       /\ uws_jobs'[job_call'.job_id].extras
                            = uws_jobs[job_call'.job_id].extras
                 /\ job_call'.fn = "set_uws_extras_and_phase"
                    => /\ uws_jobs'[job_call'.job_id].error
                            = uws_jobs[job_call'.job_id].error
                       /\ uws_jobs'[job_call'.job_id].extras = job_call'.extras ]_vars

\* the last call was set_uws_extras_and_phase for job 1, and the message a
\* set_uws_phase call had recorded before it is still stored, while job 2,
\* whose message was cleared by a call without error, has extras
C28_Witness ==
    /\ Len(uws_jobs) = 2
    /\ job_call.fn = "set_uws_extras_and_phase"
    /\ job_call.job_id = 1
    /\ uws_jobs[1].error = "m1"
    /\ uws_jobs[1].extras = "x1"
    /\ uws_jobs[2].error = NULL
    /\ uws_jobs[2].extras = "x1"
    /\ uws_jobs[2].job_info = "job_info"

(* C26: whenever the parent/self lookup of an insert has returned its     *)
(* rows for a path p, they are classified correctly: one row and a         *)
(* non-empty parent path, the row has the parent's path (the assertion     *)
(* holds); one row and an empty parent path, the row has path p; two rows, *)
(* the first has the parent's path and the second has path p; and there    *)
(* are never more than two rows.                                           *)
C26_Lookup ==
    \A p \in Procs :
        ( pc[p] = "lock" /\ qrows[p] = <<>> /\ req[p].op = "insert" )
        => LET result == got[p]
               path == PathLabels(req[p].path)
               path_parent == but_last(path)
           IN  /\ Len(result) <= 2
               /\ ( Len(result) = 1 /\ path_parent # <<>> )
                  => RowLabels(result[1]) = path_parent
               /\ ( Len(result) = 1 /\ path_parent = <<>> )
                  => RowLabels(result[1]) = path
               /\ Len(result) = 2
                  => /\ RowLabels(result[1]) = path_parent
                     /\ RowLabels(result[2]) = path

(* C27: after any sequence of insert and delete operations, ended in       *)
(* success or in failure, every node row whose path has more than one      *)
(* segment has a row for its parent path in the same space, and that row   *)
(* is a ContainerNode: no orphan rows, no children under a link or data    *)
(* node.                                                                   *)
C27_NoOrphans ==
    \A r \in nodes :
        Len(RowLabels(r)) > 1
        => \E parent \in nodes :
              /\ parent.space_id = r.space_id
              /\ RowLabels(parent) = but_last(RowLabels(r))
              /\ parent.type = NodeType_ContainerNode

====
